---- MODULE Spec2Model ----
(***************************************************************************)
(* A model of the asynchronous request engine of puppet/player.py: the     *)
(* LazyRequest (construct, map, await/start, soft_send), the Bundler       *)
(* (_bundle_internal, bundle, bundle_p, _ignored_request) and the reply    *)
(* decoding of _transform_future / _handle_json / str2error.               *)
(* Further: the callback registry and the dispatch of unsolicited frames   *)
(* (set_callback, remove_callback, set_packet_callback,                    *)
(* remove_packet_callback, clear_callbacks, _callback_handler,             *)
(* wait_for_callback), has_baritone, and discovery (Player.discover, in    *)
(* two steps: taking an announcement, and the end of connection.start());  *)
(* repeated and concurrent waits and wait_for_chat against a server that   *)
(* keeps the enablement of an event class; arotate and the slot            *)
(* arithmetic of the Inventory classes.                                    *)
(*                                                                         *)
(* Python values are modelled as records so that any two of them can be    *)
(* compared: a JSON object is a record of its keys, a raw payload is       *)
(* [bytes |-> ...], the application of a caller-supplied function f to v   *)
(* is the term [fn |-> f, arg |-> v] (f = lambda v: ("f", v)), an optional *)
(* integer is <<>> (None) or <<n>>.                                        *)
(***************************************************************************)
EXTENDS Integers, Sequences, FiniteSets, Bags, TLC

VARIABLES
    reqs,      \* every LazyRequest instance created so far, in creation order
    futs,      \* the connection's correlation entries, indexed by packet id
    wire,      \* the frames written to the transport, in write order
    tasks,     \* requests handed to asyncio.create_task and not yet run
    held,      \* the requests the caller holds a reference to
    lastCall,  \* the operation that has just ended, its arguments and its result
    chained,   \* history: per request, the functions the caller gave it, in order
    bundled,   \* history: per accepted bundle call, its arguments and its futures
    spawned,   \* history: the requests ever started in a task of their own
    callbacks,         \* Player._callbacks: event id -> handler
    default_callback,  \* Player.default_callback
    invoked,   \* history: how often each handler was called, per event id and caller
    coros,     \* coroutines handed to asyncio.create_task and not yet run
    waiter,    \* the wait_for_callback coroutine: where it is suspended
    scan,        \* the Player.discover call: its argument and where it is
    received,    \* history: the broadcast packets received while scanning
    yielded,     \* history: what gen_broadcasts has yielded
    connections, \* the connections opened by discover, in order
    waits,     \* the wait_for_callback calls made against the server below
    chat,      \* the wait_for_chat call: its predicate and the call it awaits
    net,       \* the frames written to the server, in order
    server,    \* the server: is the CHAT event class enabled, frames handled
    down,      \* replies and events sent by the server and not yet read
    ready,     \* the tasks and wakeups the event loop will run, in order
    emitted    \* history: the chat events the server has emitted

\* the state of the event side of the session
evVars == <<callbacks, default_callback, invoked, coros, waiter>>

\* the state of discovery
discVars == <<scan, received, yielded, connections>>

\* waits followed together with the server
waitVars == <<waits, chat, net, server, down, ready, emitted>>

vars == <<reqs, futs, wire, tasks, held, lastCall, chained, bundled, spawned, evVars,
          discVars, waitVars>>

\* ------------------------------------------------------------------ bounds
MaxReqs == 3
MaxConstructed == 1
MaxFuts == 3
MaxBundle == 2

\* ------------------------------------------------------------ Python values
None == "None"
NoValue == [none |-> TRUE]
NoExtra == [none |-> TRUE]
NoModifier == [kind |-> "none"]

\* dict.get(key, default)
Get(d, key, default) == IF key \in DOMAIN d THEN d[key] ELSE default

\* del d[key] for a key the dict holds
Del(d, key) == [k \in (DOMAIN d) \ {key} |-> d[k]]

\* how a call or a future ends: a returned value or a raised exception
Return(v) == [kind |-> "return", value |-> v, exc |-> "", msg |-> "", etype |-> ""]
Raise(exc, msg, etype) ==
    [kind |-> "raise", value |-> NoValue, exc |-> exc, msg |-> msg, etype |-> etype]

\* PuppeteerError(msg) with no etype argument keeps the constructor's default
DefaultEtype == "<default>"

\* ------------------------------------------------------------- constants.py
error_str_to_enum ==
    ("expected argument"    :> "EXPECTED_ARGUMENT_ERROR") @@
    ("unexpected argument"  :> "UNEXPECTED_ARGUMENT_ERROR") @@
    ("config file missing"  :> "CONFIG_FILE_ERROR") @@
    ("unknown mod"          :> "UNKNOWN_MOD") @@
    ("cannot connect"       :> "CONNECTION_ERROR") @@
    ("cannot join world"    :> "WORLD_JOIN_ERROR") @@
    ("format"               :> "FORMAT_ERROR") @@
    ("mod requirement"      :> "MOD_REQUIREMENT_ERROR") @@
    ("exception"            :> "INTERNAL_EXCEPTION") @@
    ("baritone calculation" :> "BARITONE_ERROR") @@
    ("unknown config item"  :> "UNKNOWN_CONFIG_VALUE_ERROR")

str2error(error) ==
    IF error \in DOMAIN error_str_to_enum
    THEN error_str_to_enum[error]
    ELSE "UNKNOWN_ERROR"

\* the members of CallbackType; the value of each is its name
CallbackTypes ==
    {"BARITONE", "PLAYER_POSITION", "PLAYER_YAW", "PLAYER_PITCH", "PLAYER_DAMAGE",
     "PLAYER_DEATH", "PLAYER_INVENTORY", "CHAT"}

\* {v.value: v for k, v in CallbackType.__members__.items()}
string_callback_dict == [v \in CallbackTypes |-> v]

\* ---------------------------------------------------------------- player.py
\* The wire tags: ord('j') structured, ord('b') raw binary, ord('n') raw numeric.
Tags == {"j", "b", "n"}

\* A caller-supplied function. kind "tag": lambda v: (name, v), which keeps the
\* order of application readable in the result; kind "const": lambda _: value.
Tagging(name) == [kind |-> "tag", name |-> name, value |-> NoValue]
Constant(v) == [kind |-> "const", name |-> "", value |-> v]

\* the modifier of _get_callback_states (lines 384-387): the "typical callbacks"
\* of the result, keyed by the CallbackType of each name (None for other names).
\* The object is the sequence of its <<name, value>> items in the order of the
\* reply; of the items that come under one key the last one gives the value.
CallbackStates == [kind |-> "callback_states", name |-> "", value |-> NoValue]
callback_states(result) ==
    LET items == result["typical callbacks"]
        key(i) == Get(string_callback_dict, items[i][1], None)
        last(e) == CHOOSE i \in DOMAIN items :
                      /\ key(i) = e
                      /\ \A j \in DOMAIN items : key(j) = e => j <= i
    IN [e \in {key(i) : i \in DOMAIN items} |-> items[last(e)][2]]

Apply(predicate, v) ==
    IF predicate.kind = "const" THEN predicate.value
    ELSE IF predicate.kind = "callback_states" THEN callback_states(v)
    ELSE [fn |-> predicate.name, arg |-> v]

\* A modifier is None, a function given to the constructor, or the closure tmp
\* that map builds over the previous modifier.
Fn(predicate) == [kind |-> "fn", predicate |-> predicate]
Tmp(oldModifier, predicate) ==
    [kind |-> "tmp", oldModifier |-> oldModifier, predicate |-> predicate]

RECURSIVE CallModifier(_, _)
CallModifier(modifier, data) ==
    IF modifier.kind = "fn" THEN Apply(modifier.predicate, data)
    ELSE LET d == IF modifier.oldModifier # NoModifier
                  THEN CallModifier(modifier.oldModifier, data)
                  ELSE data
         IN Apply(modifier.predicate, d)

\* _handle_json with "del json["id"]" forgotten
_handle_json_keeps_id(packet_type, json) ==
    IF packet_type # "j" THEN Raise("AssertionError", "", "")
    ELSE IF Get(json, "status", None) = "error"
    THEN Raise("PuppeteerError", "Error: " \o Get(json, "message", ""),
               str2error(Get(json, "type", None)))
    ELSE IF "status" \notin DOMAIN json THEN Raise("KeyError", "status", "")
    ELSE Return(Del(json, "status"))

_handle_json(packet_type, json) ==
    IF packet_type # "j" THEN Raise("AssertionError", "", "")
    ELSE IF Get(json, "status", None) = "error"
    THEN Raise("PuppeteerError", "Error: " \o Get(json, "message", ""),
               str2error(Get(json, "type", None)))
    ELSE IF "status" \notin DOMAIN json THEN Raise("KeyError", "status", "")
    ELSE IF "id" \notin DOMAIN json THEN Raise("KeyError", "id", "")
    ELSE Return(Del(Del(json, "status"), "id"))

LazyRequest(connection, message, extra, raw, required_type, modifier) ==
    [connection |-> connection, message |-> message, extra |-> extra, raw |-> raw,
     required_type |-> required_type, modifier |-> modifier, executed |-> FALSE]

\* _transform_future with the tag compared before the error shape is looked for
_transform_future_tag_first(self, packet_type, data) ==
    IF packet_type # self.required_type
    THEN Raise("PuppeteerError", "Packet type was not as expeced", DefaultEtype)
    ELSE IF packet_type = "j" /\ Get(data, "status", None) = "error"
    THEN Raise("PuppeteerError", "Error: " \o Get(data, "message", ""),
               str2error(Get(data, "type", None)))
    ELSE LET decoded == IF ~self.raw THEN _handle_json(packet_type, data)
                        ELSE Return(data)
         IN IF decoded.kind = "raise" THEN decoded
            ELSE IF self.modifier # NoModifier
            THEN Return(CallModifier(self.modifier, decoded.value))
            ELSE decoded

\* _transform_future with the tag comparison of line 92 left out
_transform_future_no_tag_check(self, packet_type, data) ==
    IF packet_type = "j" /\ Get(data, "status", None) = "error"
    THEN Raise("PuppeteerError", "Error: " \o Get(data, "message", ""),
               str2error(Get(data, "type", None)))
    ELSE LET decoded == IF ~self.raw /\ packet_type = "j"
                        THEN _handle_json(packet_type, data)
                        ELSE Return(data)
         IN IF decoded.kind = "raise" THEN decoded
            ELSE IF self.modifier # NoModifier
            THEN Return(CallModifier(self.modifier, decoded.value))
            ELSE decoded

\* what the future built by self._transform_future(fut) ends with when fut
\* resolves to (packet_type, data)
_transform_future(self, packet_type, data) ==
    IF packet_type = "j" /\ Get(data, "status", None) = "error"
    THEN Raise("PuppeteerError", "Error: " \o Get(data, "message", ""),
               str2error(Get(data, "type", None)))
    ELSE IF packet_type # self.required_type
    THEN Raise("PuppeteerError", "Packet type was not as expeced", DefaultEtype)
    ELSE LET decoded == IF ~self.raw THEN _handle_json(packet_type, data)
                        ELSE Return(data)
         IN IF decoded.kind = "raise" THEN decoded
            ELSE IF self.modifier # NoModifier
            THEN Return(CallModifier(self.modifier, decoded.value))
            ELSE decoded

\* map with the closure calling predicate alone, the old modifier forgotten
map_drops_old(self, predicate) ==
    LazyRequest(self.connection, self.message, self.extra, self.raw,
                self.required_type, Tmp(NoModifier, predicate))

\* map with raw= not passed on, so that the new request takes the default
map_drops_raw(self, predicate) ==
    LazyRequest(self.connection, self.message, self.extra, FALSE,
                self.required_type, Tmp(self.modifier, predicate))

\* the request map returns
map(self, predicate) ==
    LazyRequest(self.connection, self.message, self.extra, self.raw,
                self.required_type, Tmp(self.modifier, predicate))

\* the assertions that guard a request already awaited (lines 110 and 137)
map_assert_dropped(self) == TRUE
map_assert(self) == ~self.executed

await_assert_dropped(self) == TRUE
await_assert(self) == ~self.executed

\* ------------------------------------------------- connection (not in src/)
\* BundleMethod and its wire value
BundleMethods == {"INSTANT", "TICKLY"}
MethodValue(method) == method

\* the frame of one command; the packet id is the index of its correlation entry
Packet(id, message, extra) == [id |-> id, cmd |-> message, extra |-> extra]

Pending == [kind |-> "pending", value |-> NoValue, exc |-> "", msg |-> "", etype |-> ""]
NoReply == [tag |-> "", data |-> NoValue]

\* A correlation entry: the request whose _transform_future wraps the future
\* (transformed), prepared (frame built only), written (frame on the transport,
\* alone or inside a bundle frame) or resolved (reply received and handed on).
Future(owner, transformed, state) ==
    [owner |-> owner, transformed |-> transformed, state |-> state]

\* the ids of a frame and of the sub-frames it carries
RECURSIVE PacketIds(_)
PacketIds(p) ==
    {p.id} \cup
    IF "packets" \in DOMAIN p.extra
    THEN UNION {PacketIds(p.extra.packets[k]) : k \in DOMAIN p.extra.packets}
    ELSE {}

\* the correlation table once frame has reached the transport
Transmit(fs, frame) ==
    [k \in DOMAIN fs |->
        IF k \in PacketIds(frame) /\ fs[k].state = "prepared"
        THEN [fs[k] EXCEPT !.state = "written"]
        ELSE fs[k]]

\* write_packet(message, extra) up to its suspension: the frame is written and
\* its correlation entry waits for the reply
write_packet_wire(message, extra) ==
    Append(wire, Packet(Len(futs) + 1, message, extra))
write_packet_futs(owner, message, extra) ==
    Append(Transmit(futs, Packet(Len(futs) + 1, message, extra)),
           Future(owner, TRUE, "written"))

\* the replies the server may give to the frame with this id (section 6 of the
\* protocol: status, and on success the id and command fields)
Replies(id) ==
    { [tag |-> "j", data |-> [status |-> "ok", id |-> id, mods |-> "m"]],
      [tag |-> "j", data |-> [status |-> "error", id |-> id,
                              message |-> "boom", type |-> "format"]],
      [tag |-> "j", data |-> [status |-> "error", id |-> id,
                              message |-> "boom", type |-> "bogus"]],
      [tag |-> "j", data |-> [status |-> "error", id |-> id]],
      [tag |-> "b", data |-> [bytes |-> <<id>>]],
      [tag |-> "n", data |-> [nbt |-> <<id>>]] }

\* --------------------------------------------------------------- handlers
\* no handler (None), and no wait_for_callback in progress
NoCallback == [kind |-> "none"]
NoInfo == [type |-> "", seq |-> 0]
NoWaiter ==
    [pc |-> "none", type |-> "", fut |-> 0, old_state |-> FALSE,
     old_callback |-> NoCallback, done |-> FALSE, result |-> NoInfo]

\* ------------------------------------------------------------------ calls
\* One operation: its name, the requests it was given, how it ended ("ok" or the
\* exception raised) and what it returned (request indexes or packet ids);
\* reply and outcome are those of the future a "reply" step resolves, and to
\* is who awaits that future: the caller, or a task nobody looks at; event is
\* the event id an operation of the event side was given, and calls are the
\* handler calls a dispatch or a task has made; input holds the numeric
\* arguments of an operation that takes some.
Call(op, args, result, ret) ==
    [op |-> op, args |-> args, result |-> result, ret |-> ret,
     method |-> "", ticks |-> <<>>, reply |-> NoReply, outcome |-> Pending, to |-> "",
     event |-> "", calls |-> <<>>, input |-> <<>>]

\* no operation has ended that the caller has not looked at yet
Idle == Call("idle", <<>>, "ok", <<>>)

\* What the caller builds and passes in: a request with every raw flag and
\* expected tag, a structured request built with a modifier (as
\* get_installed_mods is), two functions to chain, and a tick count or none.
Connection == "connection"
Constructions ==
    {<<raw, required_type, NoModifier>> : raw \in BOOLEAN, required_type \in Tags}
    \cup {<<FALSE, "j", Fn(Tagging("h"))>>}
Predicates == {Tagging("f"), Tagging("g")}
TicksArgs == {<<>>, <<2>>}

\* the requests made with the constructor, not by map or the Bundler
Constructed == {i \in DOMAIN reqs : reqs[i].message = "ping" /\ reqs[i].modifier.kind # "tmp"}

\* a constructor that sends the request as soon as it is built
Construct_eager(raw, required_type, modifier) ==
    /\ lastCall = Idle
    /\ Len(reqs) < MaxReqs
    /\ Len(futs) < MaxFuts
    /\ Cardinality(Constructed) < MaxConstructed
    /\ reqs' = Append(reqs, LazyRequest(Connection, "ping", NoExtra, raw,
                                        required_type, modifier))
    /\ held' = held \cup {Len(reqs) + 1}
    /\ chained' = Append(chained, IF modifier = NoModifier THEN <<>>
                                  ELSE <<modifier.predicate>>)
    /\ wire' = write_packet_wire("ping", NoExtra)
    /\ futs' = write_packet_futs(Len(reqs) + 1, "ping", NoExtra)
    /\ lastCall' = Call("new", <<>>, "ok", <<Len(reqs) + 1>>)
    /\ UNCHANGED <<tasks, bundled, discVars, waitVars, spawned, evVars>>

\* LazyRequest(connection, "ping", raw=..., required_type=..., modifier=...)
Construct(raw, required_type, modifier) ==
    /\ lastCall = Idle
    /\ Len(reqs) < MaxReqs
    /\ Cardinality(Constructed) < MaxConstructed
    /\ reqs' = Append(reqs, LazyRequest(Connection, "ping", NoExtra, raw,
                                        required_type, modifier))
    /\ held' = held \cup {Len(reqs) + 1}
    /\ chained' = Append(chained, IF modifier = NoModifier THEN <<>>
                                  ELSE <<modifier.predicate>>)
    /\ lastCall' = Call("new", <<>>, "ok", <<Len(reqs) + 1>>)
    /\ UNCHANGED <<futs, wire, tasks, bundled, discVars, waitVars, spawned, evVars>>

\* request.map(predicate)
Map(i, predicate) ==
    /\ lastCall = Idle
    /\ i \in held
    /\ IF ~map_assert(reqs[i])
       THEN /\ lastCall' = Call("map", <<i>>, "AssertionError", <<>>)
            /\ UNCHANGED <<reqs, held, chained>>
       ELSE /\ Len(reqs) < MaxReqs
            /\ reqs' = Append(reqs, map(reqs[i], predicate))
            /\ held' = held \cup {Len(reqs) + 1}
            /\ chained' = Append(chained, Append(chained[i], predicate))
            /\ lastCall' = Call("map", <<i>>, "ok", <<Len(reqs) + 1>>)
    /\ UNCHANGED <<futs, wire, tasks, bundled, discVars, waitVars, spawned, evVars>>

\* write_packet(message, extra) on a transport that is cut: the frame is
\* built, with its correlation entry, and does not reach the transport; the
\* call ends with the connection's error
write_packet_cut_futs(owner) == Append(futs, Future(owner, TRUE, "prepared"))
ConnectionError == Raise("ConnectionError", "", "")

\* request.__await__, up to the suspension on the reply, or, when the
\* transport is cut (sent is FALSE), up to the failure of write_packet
AwaitRequest(i, op, sent) ==
    IF ~await_assert(reqs[i])
    THEN /\ sent
         /\ lastCall' = Call(op, <<i>>, "AssertionError", <<>>)
         /\ UNCHANGED <<reqs, futs, wire>>
    ELSE /\ Len(futs) < MaxFuts
         /\ reqs' = [reqs EXCEPT ![i].executed = TRUE]
         /\ IF sent
            THEN /\ wire' = write_packet_wire(reqs[i].message, reqs[i].extra)
                 /\ futs' = write_packet_futs(i, reqs[i].message, reqs[i].extra)
                 /\ lastCall' = Call(op, <<i>>, "ok", <<Len(futs) + 1>>)
            ELSE /\ wire' = wire
                 /\ futs' = write_packet_cut_futs(i)
                 /\ lastCall' = [Call(op, <<i>>, ConnectionError.exc, <<>>)
                                    EXCEPT !.outcome = ConnectionError,
                                           !.to = IF op = "task" THEN "task"
                                                  ELSE "caller"]

\* await request
Await(i, sent) ==
    /\ lastCall = Idle
    /\ i \in held
    /\ AwaitRequest(i, "await", sent)
    /\ UNCHANGED <<tasks, held, chained, bundled, discVars, waitVars, spawned, evVars>>

\* await request.start()
Start(i, sent) ==
    /\ lastCall = Idle
    /\ i \in held
    /\ AwaitRequest(i, "start", sent)
    /\ UNCHANGED <<tasks, held, chained, bundled, discVars, waitVars, spawned, evVars>>

\* request.soft_send(): the frame as _write_packet_internal builds it, with the
\* packet id it is given, and the transformed future
soft_send_packet(self, id) == Packet(id, self.message, self.extra)
soft_send_future_raw(i) == Future(i, FALSE, "prepared")
soft_send_future(i) == Future(i, TRUE, "prepared")

\* the sub-frames collected last request first
bundle_packets_reversed(packets) ==
    [k \in 1..Len(packets) |->
        soft_send_packet(reqs[packets[Len(packets) + 1 - k]],
                         Len(futs) + Len(packets) + 1 - k)]

\* line 296: every request of packets is soft-sent, in order
bundle_packets(packets) ==
    [k \in 1..Len(packets) |-> soft_send_packet(reqs[packets[k]], Len(futs) + k)]
bundle_futures(packets) ==
    [k \in 1..Len(packets) |-> soft_send_future(packets[k])]
bundle_ids(packets) == [k \in 1..Len(packets) |-> Len(futs) + k]

\* line 298
ticks_never_rejected(method, ticks) == FALSE
ticks_rejected(method, ticks) == ticks # <<>> /\ method # "TICKLY"

\* how _bundle_internal ends: unpacking zip() of nothing into two names fails
bundle_result(packets, method, ticks) ==
    IF Len(packets) = 0 THEN "ValueError"
    ELSE IF ticks_rejected(method, ticks) THEN "AttributeError"
    ELSE "ok"

\* lines 301-305
bundle_request(packets, method, ticks) ==
    LazyRequest(Connection, "bundle",
                IF ticks = <<>>
                THEN [packets |-> bundle_packets(packets), method |-> MethodValue(method)]
                ELSE [packets |-> bundle_packets(packets), method |-> MethodValue(method),
                      ticks |-> ticks[1]],
                FALSE, "j", NoModifier)

BundleCall(op, packets, method, ticks, result, ret) ==
    [Call(op, packets, result, ret) EXCEPT !.method = method, !.ticks = ticks]

\* history of an accepted bundle call: the method called, the requests given,
\* in order, the packet ids of the futures returned, in order, and the policy
BundleRecord(op, packets, method, ticks) ==
    [op |-> op, packets |-> packets, ids |-> bundle_ids(packets), method |-> method,
     ticks |-> ticks, outer |-> Len(reqs) + 1]

PacketLists == UNION {[1..n -> held] : n \in 0..MaxBundle}

\* history of the requests started in a task: which, and by what
Spawn(requests, by) == {[req |-> i, by |-> by] : i \in requests}

\* _ignored_request with the task never created
_ignored_request_not_started(request) == tasks

\* _ignored_request(request): request.start() is handed to asyncio.create_task;
\* the done callback looks at nothing, so the task's result reaches nobody
_ignored_request(request) == tasks \cup {request}

\* bundle_p with the outer request returned as it is, not mapped
bundle_p_unmapped(packets, method, ticks) == bundle_request(packets, method, ticks)

\* line 309: packet.map(lambda _: futures)
bundle_p(packets, method, ticks) ==
    map(bundle_request(packets, method, ticks),
        Constant([futures |-> bundle_ids(packets)]))

\* what _bundle_internal leaves behind when it raises
BundleRaises(op, packets, method, ticks) ==
    /\ bundle_result(packets, method, ticks) # "ok"
    /\ futs' = futs \o bundle_futures(packets)
    /\ lastCall' = BundleCall(op, packets, method, ticks,
                              bundle_result(packets, method, ticks), <<>>)
    /\ UNCHANGED <<reqs, wire, tasks, held, chained, bundled, discVars, waitVars, spawned, evVars>>

\* Player.bundle: the outer request is started in a task nobody awaits
Bundle(packets, method, ticks) ==
    /\ lastCall = Idle
    /\ Len(futs) + Len(packets) <= MaxFuts
    /\ \/ BundleRaises("bundle", packets, method, ticks)
       \/ /\ bundle_result(packets, method, ticks) = "ok"
          /\ Len(reqs) < MaxReqs
          /\ reqs' = Append(reqs, bundle_request(packets, method, ticks))
          /\ futs' = futs \o bundle_futures(packets)
          /\ tasks' = _ignored_request(Len(reqs) + 1)
          /\ spawned' = spawned \cup Spawn(tasks' \ tasks, "_ignored_request")
          /\ lastCall' = BundleCall("bundle", packets, method, ticks, "ok",
                                    bundle_ids(packets))
          /\ chained' = Append(chained, <<>>)
          /\ bundled' = Append(bundled, BundleRecord("bundle", packets, method, ticks))
          /\ UNCHANGED <<wire, held, discVars, waitVars, evVars>>

\* Player.bundle_p: the outer request mapped to the sub-futures
BundleP(packets, method, ticks) ==
    /\ lastCall = Idle
    /\ Len(futs) + Len(packets) <= MaxFuts
    /\ \/ BundleRaises("bundle_p", packets, method, ticks)
       \/ /\ bundle_result(packets, method, ticks) = "ok"
          /\ Len(reqs) + 2 <= MaxReqs
          /\ reqs' = reqs \o
                <<bundle_request(packets, method, ticks),
                  bundle_p(packets, method, ticks)>>
          /\ futs' = futs \o bundle_futures(packets)
          /\ held' = held \cup {Len(reqs) + 2}
          /\ lastCall' = BundleCall("bundle_p", packets, method, ticks, "ok",
                                    <<Len(reqs) + 2>>)
          /\ chained' = chained \o
                <<(<<>>), <<Constant([futures |-> bundle_ids(packets)])>> >>
          /\ bundled' = Append(bundled, BundleRecord("bundle_p", packets, method, ticks))
          /\ UNCHANGED <<wire, tasks, spawned, discVars, waitVars, evVars>>

\* the event loop runs a task made by _ignored_request: request.start(), whose
\* exception, if any (the failure of the send included), nobody retrieves
RunTask(i, sent) ==
    /\ lastCall = Idle
    /\ i \in tasks
    /\ AwaitRequest(i, "task", sent)
    /\ tasks' = tasks \ {i}
    /\ UNCHANGED <<held, chained, bundled, discVars, waitVars, spawned, evVars>>

\* the task the event loop runs next with the latest made first
NextTask_latest == CHOOSE i \in tasks : \A j \in tasks : j <= i

\* the task the event loop runs next: tasks start in the order they were made,
\* which is the order of the requests they start
NextTask == CHOOSE i \in tasks : \A j \in tasks : i <= j

\* what the future of a correlation entry ends with on this reply
FutureOutcome(fut, reply) ==
    IF fut.transformed
    THEN _transform_future(reqs[fut.owner], reply.tag, reply.data)
    ELSE Return([packet_type |-> reply.tag, data |-> reply.data])

\* who awaits the future of a correlation entry: the task that started the
\* request, the session method that called write_packet itself (no request
\* owns the entry), or else the caller (of await, or of bundle for a sub-future)
Awaiter(id) ==
    IF \E t \in spawned : t.req = futs[id].owner THEN "task"
    ELSE IF futs[id].owner = 0 THEN "session"
    ELSE "caller"

\* the elements of a tuple
Range(seq) == {seq[k] : k \in DOMAIN seq}

\* a reply that fails the future of a sub-request failing, with it, the futures
\* of the sub-requests that travelled in the same bundle frame
Resolve_failing_bundle(id, reply) ==
    /\ lastCall = Idle
    /\ id \in DOMAIN futs
    /\ futs[id].state = "written"
    /\ futs' = [j \in DOMAIN futs |->
                  IF j = id \/ (/\ FutureOutcome(futs[id], reply).kind = "raise"
                                /\ \E b \in DOMAIN bundled :
                                      {id, j} \subseteq Range(bundled[b].ids))
                  THEN [futs[j] EXCEPT !.state = "resolved"]
                  ELSE futs[j]]
    /\ lastCall' = [Call("reply", <<futs[id].owner>>, "ok", <<id>>)
                        EXCEPT !.reply = reply,
                               !.outcome = FutureOutcome(futs[id], reply),
                               !.to = Awaiter(id)]
    /\ UNCHANGED <<reqs, wire, tasks, held, chained, bundled, discVars, waitVars, spawned, evVars>>

\* the reply to a written frame arrives: its future resolves and whoever awaits
\* it gets the outcome
Resolve(id, reply) ==
    /\ lastCall = Idle
    /\ id \in DOMAIN futs
    /\ futs[id].state = "written"
    /\ futs' = [futs EXCEPT ![id].state = "resolved"]
    /\ lastCall' = [Call("reply", <<futs[id].owner>>, "ok", <<id>>)
                        EXCEPT !.reply = reply,
                               !.outcome = FutureOutcome(futs[id], reply),
                               !.to = Awaiter(id)]
    /\ UNCHANGED <<reqs, wire, tasks, held, chained, bundled, discVars, waitVars, spawned, evVars>>

\* the caller has seen how the last operation ended and goes on
Resume ==
    /\ lastCall # Idle
    /\ lastCall' = Idle
    /\ UNCHANGED <<reqs, futs, wire, tasks, held, chained, bundled, discVars, waitVars, spawned, evVars>>

\* ------------------------------------------------------------------ events
\* the frames dispatched: in all, and while a wait_for_callback is followed
MaxEvents == 4
MaxWaitEvents == 2

\* PacketCallbackState (connection module) and its wire value
PacketCallbackStates ==
    {"DISABLED", "NOTIFY", "NETWORK_SERIALIZED", "OBJECT_SERIALIZED",
     "NOTIFY_NEXT", "NETWORK_SERIALIZED_NEXT", "OBJECT_SERIALIZED_NEXT"}
StateValue(callbackType) == callbackType

\* line 516: the states whose callback triggers once
NextStates == {"NETWORK_SERIALIZED_NEXT", "NOTIFY_NEXT", "OBJECT_SERIALIZED_NEXT"}

\* d[key] = v
Put(d, key, v) == [k \in (DOMAIN d) \cup {key} |-> IF k = key THEN v ELSE d[k]]

\* A handler the caller passes in: a plain function, a coroutine function
\* (calling it yields a coroutine), or a plain function whose body registers
\* the handler again, one-shot, for the id of the event it was called with.
User(name, async, reregisters) ==
    [kind |-> "user", name |-> name, async |-> async, reregisters |-> reregisters]

\* the closure removal_wrapper of set_packet_callback (lines 511-513)
removal_wrapper(idd, callback) ==
    [kind |-> "removal_wrapper", idd |-> idd, callback |-> callback]

\* the closure tmp of wait_for_callback (lines 469-476)
wait_tmp(type, old_callback) ==
    [kind |-> "tmp", type |-> type, old_callback |-> old_callback]

\* What the caller passes in: the event ids, the handlers, the packet states.
Types == {"CHAT"}
Idds == {"clientbound/minecraft:ping"}
EventIds == Types \cup Idds
PlainHandlers == {User("h", FALSE, FALSE), User("a", TRUE, FALSE)}
Handlers == {User("h", FALSE, FALSE), User("r", FALSE, TRUE)}
DefaultHandlers == {User("d", FALSE, FALSE)}
StateArgs == {"NOTIFY", "NOTIFY_NEXT", "DISABLED"}

\* lines 402-409
_set_callbacks(cbs) ==
    LazyRequest(Connection, "set callbacks",
                [callbacks |-> [k \in DOMAIN cbs |-> cbs[k]]], FALSE, "j", NoModifier)

\* lines 411-428
_set_packet_callbacks(cbs) ==
    LazyRequest(Connection, "set callbacks",
                [callbacks |-> [k \in DOMAIN cbs |-> StateValue(cbs[k])]],
                FALSE, "j", NoModifier)

\* lines 430-432
_clear_callbacks ==
    LazyRequest(Connection, "clear callbacks", NoExtra, FALSE, "j", NoModifier)

\* lines 377-387
_get_callback_states ==
    LazyRequest(Connection, "get callbacks", NoExtra, FALSE, "j", Fn(CallbackStates))

\* lines 516-519: what set_packet_callback puts into the registry
packet_callback_entry(idd, callbackType, callback) ==
    IF callbackType \in NextStates THEN removal_wrapper(idd, callback)
    ELSE callback

\* the history entry of a call: which handler, for what event id, called by
\* whom: the dispatch for an entry of the registry or for the default handler,
\* tmp for the handler it replaced, nobody when the frame was dropped
Counted(call) == [name |-> call.name, type |-> call.info.type, by |-> call.by]
Count(log) == [c \in {Counted(log[k]) : k \in DOMAIN log} |->
                  Cardinality({k \in DOMAIN log : Counted(log[k]) = c})]

\* the frames dispatched so far, and the frame of the next event of this id
Dispatched ==
    BagCardinality(invoked) - BagCardinality([c \in {d \in BagToSet(invoked) : d.by = "tmp"}
                                                |-> CopiesIn(c, invoked)])
Info(type) == [type |-> type, seq |-> Dispatched + 1]

\* one call of a handler: which, with what frame, whether the registry held an
\* entry for the frame's id when the call began, and who made the call
Invocation(name, info, registered, by) ==
    [name |-> name, info |-> info, registered |-> registered, by |-> by]

\* What calling a handler does: the registry afterwards, the call logged, the
\* kind of value returned, the requests built meanwhile (the handler returns
\* them and the dispatch lets go of them), the exception raised.
Called(cbs, log, res, made, raised) ==
    [callbacks |-> cbs, log |-> log, res |-> res, made |-> made, raised |-> raised]

\* callback(info) for a handler the caller passed in
CallUser(handler, info, cbs, by) ==
    LET entry == Invocation(handler.name, info, info.type \in DOMAIN cbs, by)
    IN IF handler.async THEN Called(cbs, <<entry>>, "coroutine", <<>>, "")
       ELSE IF handler.reregisters
       THEN Called(Put(cbs, info.type,
                       packet_callback_entry(info.type, "NOTIFY_NEXT", handler)),
                   <<entry>>, "request",
                   <<_set_packet_callbacks((info.type :> "NOTIFY_NEXT"))>>, "")
       ELSE Called(cbs, <<entry>>, "none", <<>>, "")

\* removal_wrapper with the del statement forgotten
removal_wrapper_keeps_entry(handler, info, cbs, by) ==
    CallUser(handler.callback, info, cbs, by)

\* removal_wrapper with the entry deleted after the handler has returned
removal_wrapper_deletes_last(handler, info, cbs, by) ==
    LET r == CallUser(handler.callback, info, cbs, by)
    IN IF handler.idd \notin DOMAIN r.callbacks
       THEN Called(r.callbacks, r.log, "none", r.made, "KeyError")
       ELSE [r EXCEPT !.callbacks = Del(r.callbacks, handler.idd)]

\* removal_wrapper(info), lines 512-513
removal_wrapper_call(handler, info, cbs, by) ==
    IF handler.idd \notin DOMAIN cbs THEN Called(cbs, <<>>, "none", <<>>, "KeyError")
    ELSE CallUser(handler.callback, info, Del(cbs, handler.idd), by)

\* callback(info) for any handler; tmp is a coroutine function
CallHandler(handler, info, cbs, by) ==
    IF handler.kind = "removal_wrapper" THEN removal_wrapper_call(handler, info, cbs, by)
    ELSE IF handler.kind = "tmp"
    THEN Called(cbs, <<Invocation("tmp", info, info.type \in DOMAIN cbs, by)>>,
                "coroutine", <<>>, "")
    ELSE CallUser(handler, info, cbs, by)

\* _callback_handler with the default handler never looked at
_callback_lookup_no_default(info) == Get(callbacks, info.type, NoCallback)

\* lines 174-175
_callback_lookup(info) ==
    IF Get(callbacks, info.type, NoCallback) # NoCallback
    THEN Get(callbacks, info.type, NoCallback)
    ELSE default_callback

\* a coroutine a handler returned: not started, started and suspended on I/O;
\* joined tells whether the frame-reading path waits for it to end
Coroutine(handler, info) ==
    [handler |-> handler, info |-> info, pc |-> "created", joined |-> FALSE]

\* _callback_handler awaiting the coroutine itself
create_task_joined(coroutine) == Append(coros, [coroutine EXCEPT !.joined = TRUE])

\* line 180: asyncio.create_task(res)
create_task(coroutine) == Append(coros, coroutine)

\* the frame-reading path is inside a dispatch that has not returned
ReaderBlocked == \E k \in DOMAIN coros : coros[k].joined

\* Player.default_callback = callback
SetDefaultCallback(callback) ==
    /\ lastCall = Idle
    /\ default_callback # callback
    /\ default_callback' = callback
    /\ lastCall' = Call("set_default", <<>>, "ok", <<>>)
    /\ UNCHANGED <<reqs, futs, wire, tasks, held, chained, bundled, discVars, waitVars, spawned,
                   callbacks, invoked, coros, waiter>>

\* A registration call that ends by returning the request it built; the
\* caller keeps the request, to await it, or lets go of it at once.
Registered(op, event, request, keep) ==
    IF keep
    THEN /\ Len(reqs) < MaxReqs
         /\ reqs' = Append(reqs, request)
         /\ held' = held \cup {Len(reqs) + 1}
         /\ chained' = Append(chained, <<>>)
         /\ lastCall' = [Call(op, <<>>, "ok", <<Len(reqs) + 1>>)
                            EXCEPT !.event = event, !.outcome = Return(request)]
    ELSE /\ lastCall' = [Call(op, <<>>, "ok", <<>>)
                            EXCEPT !.event = event, !.outcome = Return(request)]
         /\ UNCHANGED <<reqs, held, chained>>

\* a registration call that raises
Refused(op, event, exc) ==
    /\ lastCall' = [Call(op, <<>>, exc, <<>>) EXCEPT !.event = event]
    /\ UNCHANGED <<reqs, held, chained, callbacks>>

\* Player.set_callback(type, callback)
SetCallback(type, callback, keep) ==
    /\ lastCall = Idle
    /\ callbacks' = Put(callbacks, type, callback)
    /\ Registered("set_callback", type, _set_callbacks((type :> TRUE)), keep)
    /\ UNCHANGED <<futs, wire, tasks, bundled, discVars, waitVars, spawned,
                   default_callback, invoked, coros, waiter>>

\* Player.remove_callback(type)
RemoveCallback(type, keep) ==
    /\ lastCall = Idle
    /\ IF type \notin DOMAIN callbacks
       THEN Refused("remove_callback", type, "KeyError")
       ELSE /\ callbacks' = Del(callbacks, type)
            /\ Registered("remove_callback", type, _set_callbacks((type :> FALSE)),
                          keep)
    /\ UNCHANGED <<futs, wire, tasks, bundled, discVars, waitVars, spawned,
                   default_callback, invoked, coros, waiter>>

\* Player.clear_callbacks(): the registry is emptied, whatever it held
ClearCallbacks(keep) ==
    /\ lastCall = Idle
    /\ callbacks' = [k \in {} |-> NoCallback]
    /\ Registered("clear_callbacks", "", _clear_callbacks, keep)
    /\ UNCHANGED <<futs, wire, tasks, bundled, discVars, waitVars, spawned,
                   default_callback, invoked, coros, waiter>>

\* Player.remove_packet_callback(idd)
RemovePacketCallback(idd, keep) ==
    /\ lastCall = Idle
    /\ IF idd \notin DOMAIN callbacks
       THEN Refused("remove_packet_callback", idd, "KeyError")
       ELSE /\ callbacks' = Del(callbacks, idd)
            /\ Registered("remove_packet_callback", idd,
                          _set_packet_callbacks((idd :> "DISABLED")), keep)
    /\ UNCHANGED <<futs, wire, tasks, bundled, discVars, waitVars, spawned,
                   default_callback, invoked, coros, waiter>>

\* Player.set_packet_callback(idd, callbackType, callback)
SetPacketCallback(idd, callbackType, callback, keep) ==
    /\ lastCall = Idle
    /\ IF callbackType = "DISABLED"
       THEN Refused("set_packet_callback", idd, "AssertionError")
       ELSE /\ callbacks' = Put(callbacks, idd,
                                packet_callback_entry(idd, callbackType, callback))
            /\ Registered("set_packet_callback", idd,
                          _set_packet_callbacks((idd :> callbackType)), keep)
    /\ UNCHANGED <<futs, wire, tasks, bundled, discVars, waitVars, spawned,
                   default_callback, invoked, coros, waiter>>

\* Player._callback_handler(info): the whole dispatch of one unsolicited frame
Dispatch(type) ==
    /\ lastCall = Idle
    /\ Dispatched < MaxEvents
    /\ ~ReaderBlocked
    /\ LET info == Info(type)
           callback == _callback_lookup(info)
           by == IF Get(callbacks, type, NoCallback) # NoCallback THEN "entry"
                 ELSE "default"
           r == CallHandler(callback, info, callbacks, by)
       IN IF callback = NoCallback
          THEN /\ invoked' = invoked (+)
                     Count(<<Invocation("", info, type \in DOMAIN callbacks, "nobody")>>)
               /\ lastCall' = [Call("dispatch", <<>>, "ok", <<>>)
                                  EXCEPT !.event = type,
                                         !.reply = [tag |-> "j", data |-> info]]
               /\ UNCHANGED <<callbacks, coros>>
          ELSE /\ callbacks' = r.callbacks
               /\ invoked' = invoked (+)
                     Count(IF r.log = <<>>
                           THEN <<Invocation("", info, TRUE, "nobody")>> ELSE r.log)
               /\ coros' = IF r.res = "coroutine"
                           THEN create_task(Coroutine(callback, info))
                           ELSE coros
               /\ lastCall' = [Call("dispatch", <<>>,
                                    IF r.raised = "" THEN "ok" ELSE r.raised, <<>>)
                                  EXCEPT !.event = type,
                                         !.reply = [tag |-> "j", data |-> info],
                                         !.calls = r.log]
    /\ UNCHANGED <<reqs, futs, wire, tasks, held, chained, bundled, discVars, waitVars, spawned,
                   default_callback, waiter>>

\* the function whose body a coroutine runs: the wrapper of a one-shot handler
\* returns what the handler returned
Body(handler) == IF handler.kind = "removal_wrapper" THEN handler.callback ELSE handler

\* the event loop starting the task created last
NextCoro_latest ==
    CHOOSE k \in DOMAIN coros :
        coros[k].pc = "created" /\ \A j \in (k + 1)..Len(coros) : coros[j].pc # "created"

\* the event loop starts tasks in the order they were created
NextCoro ==
    CHOOSE k \in DOMAIN coros :
        coros[k].pc = "created" /\ \A j \in 1..(k - 1) : coros[j].pc # "created"

Without(seq, k) == [j \in 1..(Len(seq) - 1) |-> IF j < k THEN seq[j] ELSE seq[j + 1]]

\* A task made by the dispatch starts. The coroutine of a handler of the caller
\* suspends on its own I/O; the coroutine of tmp runs lines 470-476 up to the
\* end or to the suspension inside "await old_callback(info)".
RunCoro ==
    /\ lastCall = Idle
    /\ \E k \in DOMAIN coros : coros[k].pc = "created"
    /\ LET k == NextCoro
           c == coros[k]
           body == Body(c.handler)
           r == CallHandler(body.old_callback, c.info, callbacks, "tmp")
       IN IF body.kind = "user"
          THEN /\ coros' = [coros EXCEPT ![k].pc = "suspended"]
               /\ lastCall' = Call("coroutine", <<>>, "suspended", <<>>)
               /\ UNCHANGED <<callbacks, invoked, waiter>>
          ELSE /\ waiter' = IF ~waiter.done
                            THEN [waiter EXCEPT !.done = TRUE, !.result = c.info]
                            ELSE waiter
               /\ IF body.old_callback # NoCallback
                  THEN /\ r.res \in {"coroutine", "none"}
                       /\ invoked' = invoked (+) Count(r.log)
                       /\ callbacks' = r.callbacks
                       /\ IF r.res = "coroutine"
                          THEN /\ coros' = [coros EXCEPT ![k].pc = "suspended"]
                               /\ lastCall' = [Call("coroutine", <<>>, "suspended", <<>>)
                                                  EXCEPT !.calls = r.log]
                          ELSE /\ coros' = Without(coros, k)
                               /\ lastCall' = [Call("coroutine", <<>>, "TypeError", <<>>)
                                                  EXCEPT !.calls = r.log]
                  ELSE /\ coros' = Without(coros, k)
                       /\ UNCHANGED invoked
                       /\ IF body.type \in DOMAIN callbacks
                          THEN /\ callbacks' = Del(callbacks, body.type)
                               /\ lastCall' = Call("coroutine", <<>>, "ok", <<>>)
                          ELSE /\ callbacks' = callbacks
                               /\ lastCall' = Call("coroutine", <<>>, "KeyError", <<>>)
    /\ UNCHANGED <<reqs, futs, wire, tasks, held, chained, bundled, discVars, waitVars, spawned,
                   default_callback>>

\* the I/O a coroutine was suspended on completes and the coroutine ends; for
\* tmp that is line 474
FinishCoro(k) ==
    /\ lastCall = Idle
    /\ k \in DOMAIN coros
    /\ coros[k].pc = "suspended"
    /\ coros' = Without(coros, k)
    /\ callbacks' = IF Body(coros[k].handler).kind = "tmp"
                    THEN Put(callbacks, Body(coros[k].handler).type,
                             Body(coros[k].handler).old_callback)
                    ELSE callbacks
    /\ lastCall' = Call("coroutine", <<>>, "ok", <<>>)
    /\ UNCHANGED <<reqs, futs, wire, tasks, held, chained, bundled, discVars, waitVars, spawned,
                   default_callback, invoked, waiter>>

\* write_packet(message) awaited directly: the future of the untransformed reply
write_packet_raw_futs(message, extra) ==
    Append(Transmit(futs, Packet(Len(futs) + 1, message, extra)),
           Future(0, FALSE, "written"))

\* Player.wait_for_callback(type), up to the suspension of line 464
WaitForCallback(type) ==
    /\ lastCall = Idle
    /\ waiter.pc = "none"
    /\ Len(reqs) < MaxReqs
    /\ Len(futs) < MaxFuts
    /\ reqs' = Append(reqs, [_get_callback_states EXCEPT !.executed = TRUE])
    /\ chained' = Append(chained, <<CallbackStates>>)
    /\ wire' = write_packet_wire(_get_callback_states.message, _get_callback_states.extra)
    /\ futs' = write_packet_futs(Len(reqs) + 1, _get_callback_states.message,
                                 _get_callback_states.extra)
    /\ waiter' = [NoWaiter EXCEPT !.pc = "states", !.type = type, !.fut = Len(futs) + 1]
    /\ lastCall' = [Call("wait_for_callback", <<Len(reqs) + 1>>, "suspended",
                         <<Len(futs) + 1>>) EXCEPT !.event = type]
    /\ UNCHANGED <<tasks, held, bundled, discVars, waitVars, spawned, callbacks, default_callback,
                   invoked, coros>>

\* wait_for_callback registering its wrapper and starting the enable request
\* before it looks at what the query ended with
WaitStatesReply_registering ==
    /\ lastCall.op = "reply"
    /\ waiter.pc = "states"
    /\ lastCall.ret = <<waiter.fut>>
    /\ callbacks' = Put(callbacks, waiter.type,
                        wait_tmp(waiter.type, Get(callbacks, waiter.type, NoCallback)))
    /\ reqs' = Append(reqs, _set_callbacks((waiter.type :> TRUE)))
    /\ chained' = Append(chained, <<>>)
    /\ tasks' = tasks \cup {Len(reqs) + 1}
    /\ spawned' = spawned \cup Spawn({Len(reqs) + 1}, "create_task")
    /\ IF lastCall.outcome.kind = "raise"
       THEN /\ waiter' = NoWaiter
            /\ lastCall' = [Call("wait_for_callback", <<>>, lastCall.outcome.exc, <<>>)
                               EXCEPT !.event = waiter.type,
                                      !.reply = lastCall.reply,
                                      !.outcome = lastCall.outcome,
                                      !.to = "caller"]
       ELSE /\ waiter' = [waiter EXCEPT
                             !.pc = "event",
                             !.old_state = Get(lastCall.outcome.value, waiter.type, FALSE),
                             !.old_callback = Get(callbacks, waiter.type, NoCallback)]
            /\ lastCall' = [Call("wait_for_callback", <<>>, "suspended", <<>>)
                               EXCEPT !.event = waiter.type]
    /\ UNCHANGED <<futs, wire, held, bundled, discVars, waitVars, default_callback,
                   invoked, coros>>

\* wait_for_callback resumed by the reply to its query: it raises what the query
\* raised, or else runs lines 464-487 up to the suspension on fut
WaitStatesReply ==
    /\ lastCall.op = "reply"
    /\ waiter.pc = "states"
    /\ lastCall.ret = <<waiter.fut>>
    /\ IF lastCall.outcome.kind = "raise"
       THEN /\ waiter' = NoWaiter
            /\ lastCall' = [Call("wait_for_callback", <<>>, lastCall.outcome.exc, <<>>)
                               EXCEPT !.event = waiter.type,
                                      !.reply = lastCall.reply,
                                      !.outcome = lastCall.outcome,
                                      !.to = "caller"]
            /\ UNCHANGED <<reqs, chained, tasks, spawned, callbacks>>
       ELSE /\ waiter' = [waiter EXCEPT
                             !.pc = "event",
                             !.old_state = Get(lastCall.outcome.value, waiter.type, FALSE),
                             !.old_callback = Get(callbacks, waiter.type, NoCallback)]
            /\ callbacks' = Put(callbacks, waiter.type,
                                wait_tmp(waiter.type,
                                         Get(callbacks, waiter.type, NoCallback)))
            /\ reqs' = Append(reqs, _set_callbacks((waiter.type :> TRUE)))
            /\ chained' = Append(chained, <<>>)
            /\ tasks' = tasks \cup {Len(reqs) + 1}
            /\ spawned' = spawned \cup Spawn({Len(reqs) + 1}, "create_task")
            /\ lastCall' = [Call("wait_for_callback", <<>>, "suspended", <<>>)
                               EXCEPT !.event = waiter.type]
    /\ UNCHANGED <<futs, wire, held, bundled, discVars, waitVars, default_callback, invoked, coros>>

\* wait_for_callback resumed once fut has a result: lines 487-494
WaitReturn ==
    /\ lastCall = Idle
    /\ waiter.pc = "event"
    /\ waiter.done
    /\ reqs' = Append(reqs, _set_callbacks((waiter.type :> waiter.old_state)))
    /\ chained' = Append(chained, <<>>)
    /\ tasks' = _ignored_request(Len(reqs) + 1)
    /\ spawned' = spawned \cup Spawn(tasks' \ tasks, "_ignored_request")
    /\ waiter' = [waiter EXCEPT !.pc = "returned"]
    /\ lastCall' = [Call("wait_for_callback", <<>>, "ok", <<>>)
                       EXCEPT !.event = waiter.type, !.outcome = Return(waiter.result)]
    /\ UNCHANGED <<futs, wire, held, bundled, discVars, waitVars, callbacks, default_callback,
                   invoked, coros>>

\* Player.has_baritone(), up to the suspension of line 364
HasBaritone ==
    /\ lastCall = Idle
    /\ Len(futs) < MaxFuts
    /\ wire' = write_packet_wire("test baritone", NoExtra)
    /\ futs' = write_packet_raw_futs("test baritone", NoExtra)
    /\ lastCall' = Call("has_baritone", <<>>, "suspended", <<Len(futs) + 1>>)
    /\ UNCHANGED <<reqs, tasks, held, chained, bundled, discVars, waitVars, spawned, evVars>>

\* has_baritone decoding the reply the way a LazyRequest does
has_baritone_result_raising(reply) ==
    IF reply.tag = "j" /\ Get(reply.data, "status", None) = "error"
    THEN Raise("PuppeteerError", "Error: " \o Get(reply.data, "message", ""),
               str2error(Get(reply.data, "type", None)))
    ELSE Return([bool |-> TRUE])

\* line 365 on the reply (_, jso)
has_baritone_result(reply) ==
    IF reply.tag # "j" THEN Raise("TypeError", "", "")
    ELSE IF "status" \notin DOMAIN reply.data THEN Raise("KeyError", "status", "")
    ELSE Return([bool |-> reply.data.status = "ok"])

\* has_baritone resumed by the reply
HasBaritoneReply ==
    /\ lastCall.op = "reply"
    /\ lastCall.args = <<0>>
    /\ lastCall' = [Call("has_baritone", <<>>,
                         IF has_baritone_result(lastCall.reply).kind = "raise"
                         THEN has_baritone_result(lastCall.reply).exc ELSE "ok", <<>>)
                       EXCEPT !.reply = lastCall.reply,
                              !.outcome = has_baritone_result(lastCall.reply),
                              !.to = "caller"]
    /\ UNCHANGED <<reqs, futs, wire, tasks, held, chained, bundled, discVars, waitVars, spawned, evVars>>

\* the command of the frame with this packet id
Command(id) == (CHOOSE k \in DOMAIN wire : wire[k].id = id)

\* The "typical callbacks" objects the server answers "get callbacks" with, as
\* the items of each in order: no name, CHAT enabled, CHAT disabled, and CHAT
\* enabled between two names the client does not know.
TypicalCallbacks ==
    {<<>>, <<<<"CHAT", TRUE>>>>, <<<<"CHAT", FALSE>>>>,
     <<<<"BAR", TRUE>>, <<"CHAT", TRUE>>, <<"FOO", FALSE>>>>}

\* the replies of the server to a frame of the session: success, with the
\* callback states for "get callbacks", or a structured error
RepliesTo(id) ==
    (IF wire[Command(id)].cmd = "get callbacks"
     THEN {[tag |-> "j",
            data |-> ("typical callbacks" :> items) @@ [status |-> "ok", id |-> id]] :
              items \in TypicalCallbacks}
     ELSE {[tag |-> "j", data |-> [status |-> "ok", id |-> id]]})
    \cup {[tag |-> "j", data |-> [status |-> "error", id |-> id,
                                  message |-> "boom", type |-> "format"]]}

\* a reply has arrived that a suspended operation of the session waits for
ContinuationDue ==
    /\ lastCall.op = "reply"
    /\ \/ lastCall.args = <<0>>
       \/ waiter.pc = "states" /\ lastCall.ret = <<waiter.fut>>

\* the caller goes on, unless the reply resumes a suspended operation first
ResumeSession == ~ContinuationDue /\ Resume

\* --------------------------------------------------------------- discovery
\* the broadcast packets received in one scan
MaxPackets == 3

\* BROADCAST_MAGIC_NUMBER = b"PUPPETEER", byte by byte
BROADCAST_MAGIC_NUMBER == <<"P", "U", "P", "P", "E", "T", "E", "E", "R">>

\* The body of an announcement as it is on the wire, in tokens: a structured
\* object with the player's name and the port to connect to.
Announcement(username, port) ==
    <<"{", "player username", ":", username, ",", "port", ":", port, "}">>

\* the number a decimal token stands for
PortNumber == ("43001" :> 43001) @@ ("43002" :> 43002)

\* the decoding of a body: the object with its fields, the port as a number
decode(body) == ("player username" :> body[4]) @@ ("port" :> PortNumber[body[8]])

\* data[from..]
Rest(data, from) == SubSeq(data, from, Len(data))

\* data begins with the magic marker
has_magic(data) ==
    /\ Len(data) >= Len(BROADCAST_MAGIC_NUMBER)
    /\ SubSeq(data, 1, Len(BROADCAST_MAGIC_NUMBER)) = BROADCAST_MAGIC_NUMBER

\* gen_broadcasts failing on a packet without the marker
gen_broadcasts_raising(data, addr) ==
    IF has_magic(data)
    THEN [kind |-> "yield",
          broadcast |-> decode(Rest(data, Len(BROADCAST_MAGIC_NUMBER) + 1)),
          addr |-> addr]
    ELSE [kind |-> "raise", broadcast |-> <<>>, addr |-> addr]

\* What gen_broadcasts does with one packet received from addr: it yields the
\* decoded announcement with the source address, or discards the packet.
gen_broadcasts(data, addr) ==
    IF has_magic(data)
    THEN [kind |-> "yield",
          broadcast |-> decode(Rest(data, Len(BROADCAST_MAGIC_NUMBER) + 1)),
          addr |-> addr]
    ELSE [kind |-> "discard", broadcast |-> <<>>, addr |-> addr]

\* discover taking every announcement
discover_skips_none(with_name, broadcast) == FALSE

\* lines 200-201: the announcement is passed over
discover_skips(with_name, broadcast) ==
    with_name # <<>> /\ broadcast["player username"] # with_name[1]

\* line 203: ClientConnection(host, broadcast["port"])
ClientConnection(addr, broadcast) == [host |-> addr.host, port |-> broadcast["port"]]

\* What arrives on the broadcast port: announcements of two players as the
\* wire format has them, and traffic without the marker at the start (a
\* foreign body, a cut-off marker, an empty packet, a marker that is not at
\* the start); the addresses they come from; the names asked for.
Datagrams ==
    {BROADCAST_MAGIC_NUMBER \o Announcement("alice", "43001"),
     BROADCAST_MAGIC_NUMBER \o Announcement("bob", "43002"),
     Announcement("alice", "43001"),
     SubSeq(BROADCAST_MAGIC_NUMBER, 1, 4),
     <<>>,
     <<"x">> \o BROADCAST_MAGIC_NUMBER \o Announcement("alice", "43001")}
Sources == {[host |-> "10.0.0.1", port |-> 50001], [host |-> "10.0.0.2", port |-> 50002]}
Names == {<<>>, <<"alice">>, <<"carol">>}

\* The discover call: pc is where it is ("scanning": suspended in the loop over
\* gen_broadcasts, line 199; "starting": suspended in connection.start(), line
\* 204; "connected": it has returned the Player, line 205; "raised": it has
\* raised exc), with_name its argument, from the packets received before it.
NoScan == [pc |-> "none", with_name |-> <<>>, from |-> 0, exc |-> ""]

\* Player.discover(with_name), up to the first suspension of the scan
Discover(with_name) ==
    /\ scan.pc \notin {"scanning", "starting"}
    /\ Len(received) < MaxPackets
    /\ scan' = [pc |-> "scanning", with_name |-> with_name, from |-> Len(received),
                exc |-> ""]
    /\ UNCHANGED <<received, yielded, connections>>
    /\ UNCHANGED <<reqs, futs, wire, tasks, held, lastCall, chained, bundled, spawned,
                   evVars, waitVars>>

\* A packet arrives on the broadcast port while discover scans: one step of
\* gen_broadcasts and, for what it yields, one turn of the loop of discover
\* (lines 199-204), up to the suspension in connection.start() when the
\* announcement is taken: the connection is made and not yet open.
Receive(data, addr) ==
    /\ scan.pc = "scanning"
    /\ Len(received) < MaxPackets
    /\ received' = Append(received, [data |-> data, addr |-> addr])
    /\ LET step == gen_broadcasts(data, addr)
       IN IF step.kind = "raise"
          THEN /\ scan' = [scan EXCEPT !.pc = "raised", !.exc = "Exception"]
               /\ UNCHANGED <<yielded, connections>>
          ELSE IF step.kind = "discard"
          THEN UNCHANGED <<scan, yielded, connections>>
          ELSE /\ yielded' = Append(yielded, [broadcast |-> step.broadcast,
                                              addr |-> step.addr,
                                              packet |-> Len(received) + 1])
               /\ IF discover_skips(scan.with_name, step.broadcast)
                  THEN UNCHANGED <<scan, connections>>
                  ELSE /\ connections' =
                            Append(connections,
                                   ClientConnection(step.addr, step.broadcast))
                       /\ scan' = [scan EXCEPT !.pc = "starting"]
    /\ UNCHANGED <<reqs, futs, wire, tasks, held, lastCall, chained, bundled, spawned,
                   evVars, waitVars>>

\* how connection.start() ends: the transport is open, or opening it failed
StartOutcomes == {"ok", "ConnectionRefusedError", "TimeoutError"}

\* connection.start() ends and discover is resumed (lines 204-205): it returns
\* the Player of the connection, or the failure of start() leaves it, with the
\* connection made and no Player.
ConnectionStarted(outcome) ==
    /\ scan.pc = "starting"
    /\ scan' = IF outcome = "ok" THEN [scan EXCEPT !.pc = "connected"]
               ELSE [scan EXCEPT !.pc = "raised", !.exc = outcome]
    /\ UNCHANGED <<received, yielded, connections>>
    /\ UNCHANGED <<reqs, futs, wire, tasks, held, lastCall, chained, bundled, spawned,
                   evVars, waitVars>>

\* no discover call yet
InitDiscovery ==
    /\ scan = NoScan
    /\ received = <<>>
    /\ yielded = <<>>
    /\ connections = <<>>

\* ------------------------------------------------------------------- waits
\* Repeated and concurrent wait_for_callback calls, and wait_for_chat, against
\* a server that keeps the enablement of the CHAT event class, handles the
\* frames in the order they were written and sends replies and events back in
\* one stream. The registry holds only the wrappers of the waits here.
MaxWaits == 3
MaxChat == 2

\* What the callers pass in and the server emits: the tasks calling, the text
\* of the chat messages (one character per element), the string given to
\* wait_for_chat.
Callers == {"A", "B"}
Messages == {<<"o", "h", "i">>, <<"h", "o">>}
ChatStrings == {<<"h", "i">>}

\* lines 223-225: lambda x: old in x
Contains(old, x) ==
    \E i \in 1..(Len(x) - Len(old) + 1) : SubSeq(x, i, i + Len(old) - 1) = old

\* the payload of a chat event
ChatInfo(seq, message) == [type |-> "CHAT", seq |-> seq, message |-> message]
NoChat == [type |-> "", seq |-> 0, message |-> <<>>]

\* the closure tmp (lines 469-476) of the n-th wait_for_callback call: fut and
\* old_callback are the variables of that call
tmp(type, n) == [kind |-> "tmp", type |-> type, wait |-> n]

\* One wait_for_callback call: who called, where it is suspended ("states" on
\* the query of line 464, "event" on fut), what the query ended with, the
\* locals old_state and old_callback, fut (done, result); concurrent tells
\* whether another call was in progress when this one was made.
Wait(caller, type, concurrent) ==
    [caller |-> caller, type |-> type, pc |-> "states", query |-> Pending,
     old_state |-> FALSE, old_callback |-> NoCallback, done |-> FALSE,
     result |-> NoChat, concurrent |-> concurrent]

\* no wait_for_chat call yet
NoChatCall == [pc |-> "none", caller |-> "", predicate |-> <<>>, wait |-> 0, ret |-> <<>>]

\* a frame on its way to the server: the request written, the call it belongs
\* to and what it is for
Frame(request, n, role) ==
    [cmd |-> request.message, extra |-> request.extra, wait |-> n, role |-> role]

\* the tasks of the event loop: a request started as a task, a wrapper
\* coroutine, the wakeup of a call whose future was resolved
RequestTask(request, n, role) ==
    [kind |-> "request", request |-> request, wait |-> n, role |-> role]
TmpTask(n, info) == [kind |-> "tmp", wait |-> n, info |-> info]
Wakeup(n) == [kind |-> "wakeup", wait |-> n]

\* the calls that have not ended
InProgress == {n \in DOMAIN waits : waits[n].pc \in {"states", "event"}}

\* the caller is not suspended in a call
Free(c) ==
    /\ \A n \in InProgress : waits[n].caller # c
    /\ chat.pc = "pending" => chat.caller # c

\* wait_for_callback(type) up to the suspension of line 464: the query is
\* written
wait_begin_waits(c, type) == Append(waits, Wait(c, type, InProgress # {}))
wait_begin_net == Append(net, Frame(_get_callback_states, Len(waits) + 1, "query"))

\* a task calls Player.wait_for_callback(type)
WaitBegin(c, type) ==
    /\ Free(c)
    /\ Len(waits) < MaxWaits
    /\ waits' = wait_begin_waits(c, type)
    /\ net' = wait_begin_net
    /\ UNCHANGED <<chat, server, down, ready, emitted>>
    /\ UNCHANGED <<reqs, futs, wire, tasks, held, lastCall, chained, bundled, spawned,
                   evVars, discVars>>

\* a task calls Player.wait_for_chat(predicate) with a string: lines 223-227 up
\* to the suspension inside the first wait_for_callback
WaitForChat(c, predicate) ==
    /\ chat.pc = "none"
    /\ Free(c)
    /\ Len(waits) < MaxWaits
    /\ chat' = [NoChatCall EXCEPT !.pc = "pending", !.caller = c,
                                  !.predicate = predicate, !.wait = Len(waits) + 1]
    /\ waits' = wait_begin_waits(c, "CHAT")
    /\ net' = wait_begin_net
    /\ UNCHANGED <<server, down, ready, emitted>>
    /\ UNCHANGED <<reqs, futs, wire, tasks, held, lastCall, chained, bundled, spawned,
                   evVars, discVars>>

\* the reply of the server to the k-th frame, and the enablement after it
server_reply(k) ==
    IF net[k].cmd = "get callbacks"
    THEN ("typical callbacks" :> <<<<"CHAT", server.enabled>>>>)
         @@ [status |-> "ok", id |-> k]
    ELSE [status |-> "ok", id |-> k]
server_enabled(k) ==
    IF net[k].cmd = "set callbacks" /\ "CHAT" \in DOMAIN net[k].extra.callbacks
    THEN net[k].extra.callbacks["CHAT"]
    ELSE server.enabled

\* the server handles the next frame and replies
ServerHandle ==
    /\ server.handled < Len(net)
    /\ server' = [server EXCEPT !.handled = @ + 1,
                                !.enabled = server_enabled(server.handled + 1)]
    /\ down' = Append(down, [kind |-> "reply", id |-> server.handled + 1, tag |-> "j",
                             data |-> server_reply(server.handled + 1),
                             info |-> NoChat])
    /\ UNCHANGED <<waits, chat, net, ready, emitted>>
    /\ UNCHANGED <<reqs, futs, wire, tasks, held, lastCall, chained, bundled, spawned,
                   evVars, discVars>>

\* the server emits a chat event, which it does while the class is enabled
ServerEmit(message) ==
    /\ server.enabled
    /\ Len(emitted) < MaxChat
    /\ emitted' = Append(emitted, [message |-> message, chat |-> chat])
    /\ down' = Append(down, [kind |-> "event", id |-> 0, tag |-> "j", data |-> NoValue,
                             info |-> ChatInfo(Len(emitted) + 1, message)])
    /\ UNCHANGED <<waits, chat, net, server, ready>>
    /\ UNCHANGED <<reqs, futs, wire, tasks, held, lastCall, chained, bundled, spawned,
                   evVars, discVars>>

\* The reading task takes the next frame of the server. An event goes through
\* _callback_handler (lines 173-180): the coroutine the wrapper returns becomes
\* a task. A reply resolves the future of its request: the call suspended on
\* the query is woken; the task of a "set callbacks" request just ends.
ClientReceive ==
    /\ down # <<>>
    /\ down' = Tail(down)
    /\ LET m == Head(down)
           callback == _callback_lookup(m.info)
       IN IF m.kind = "event"
          THEN /\ ready' = IF callback = NoCallback THEN ready
                           ELSE Append(ready, TmpTask(callback.wait, m.info))
               /\ UNCHANGED waits
          ELSE IF net[m.id].role = "query"
          THEN /\ waits' = [waits EXCEPT ![net[m.id].wait].query =
                               _transform_future(_get_callback_states, m.tag, m.data)]
               /\ ready' = Append(ready, Wakeup(net[m.id].wait))
          ELSE UNCHANGED <<waits, ready>>
    /\ UNCHANGED <<chat, net, server, emitted>>
    /\ UNCHANGED <<reqs, futs, wire, tasks, held, lastCall, chained, bundled, spawned,
                   evVars, discVars>>

\* the task of request.start() runs: the frame is written
RunRequest ==
    /\ ready # <<>>
    /\ Head(ready).kind = "request"
    /\ net' = Append(net, Frame(Head(ready).request, Head(ready).wait, Head(ready).role))
    /\ ready' = Tail(ready)
    /\ UNCHANGED <<waits, chat, server, down, emitted>>
    /\ UNCHANGED <<reqs, futs, wire, tasks, held, lastCall, chained, bundled, spawned,
                   evVars, discVars>>

\* wait_for_callback woken by the reply to its query: lines 464-487, up to the
\* suspension on fut; a query that failed ends the call, and wait_for_chat
\* with it
WaitRegister ==
    /\ ready # <<>>
    /\ Head(ready).kind = "wakeup"
    /\ waits[Head(ready).wait].pc = "states"
    /\ LET n == Head(ready).wait
           w == waits[n]
       IN IF w.query.kind = "raise"
          THEN /\ waits' = [waits EXCEPT ![n].pc = "raised"]
               /\ chat' = IF chat.pc = "pending" /\ chat.wait = n
                          THEN [chat EXCEPT !.pc = "raised"] ELSE chat
               /\ ready' = Tail(ready)
               /\ UNCHANGED callbacks
          ELSE /\ waits' = [waits EXCEPT
                               ![n].pc = "event",
                               ![n].old_state = Get(w.query.value, w.type, FALSE),
                               ![n].old_callback = Get(callbacks, w.type, NoCallback)]
               /\ callbacks' = Put(callbacks, w.type, tmp(w.type, n))
               /\ ready' = Append(Tail(ready),
                                  RequestTask(_set_callbacks((w.type :> TRUE)), n, "enable"))
               /\ UNCHANGED chat
    /\ UNCHANGED <<net, server, down, emitted>>
    /\ UNCHANGED <<reqs, futs, wire, tasks, held, lastCall, chained, bundled, spawned,
                   default_callback, invoked, coros, waiter, discVars>>

\* wait_for_callback woken once fut has a result: lines 487-494. The restore
\* request becomes a task. When wait_for_chat made the call, line 226 follows
\* without a suspension: the message is returned if the predicate holds, else
\* the next wait_for_callback call begins.
WaitReturned ==
    /\ ready # <<>>
    /\ Head(ready).kind = "wakeup"
    /\ waits[Head(ready).wait].pc = "event"
    /\ LET n == Head(ready).wait
           w == waits[n]
           again == /\ chat.pc = "pending"
                    /\ chat.wait = n
                    /\ ~Contains(chat.predicate, w.result.message)
           returned == [waits EXCEPT ![n].pc = "returned"]
       IN /\ ready' = Append(Tail(ready),
                             RequestTask(_set_callbacks((w.type :> w.old_state)), n,
                                         "restore"))
          /\ IF again
             THEN /\ Len(waits) < MaxWaits
                  /\ waits' = Append(returned,
                                     Wait(w.caller, "CHAT", InProgress \ {n} # {}))
                  /\ net' = wait_begin_net
                  /\ chat' = [chat EXCEPT !.wait = Len(waits) + 1]
             ELSE /\ waits' = returned
                  /\ net' = net
                  /\ chat' = IF chat.pc = "pending" /\ chat.wait = n
                             THEN [chat EXCEPT !.pc = "returned",
                                               !.ret = w.result.message]
                             ELSE chat
    /\ UNCHANGED <<server, down, emitted>>
    /\ UNCHANGED <<reqs, futs, wire, tasks, held, lastCall, chained, bundled, spawned,
                   evVars, discVars>>

\* The call tmp(info) of the wrapper of the n-th call (lines 469-476) on the
\* registry, the calls and the queue st: fut.set_result schedules the wakeup
\* of the call; "await old_callback(info)" runs the wrapper that was replaced
\* to its end, and an exception there ends this wrapper too.
RECURSIVE tmp_call(_, _, _)
tmp_call(n, info, st) ==
    LET w == st.waits[n]
        set == IF ~w.done
               THEN [st EXCEPT !.waits[n].done = TRUE, !.waits[n].result = info,
                               !.ready = Append(@, Wakeup(n))]
               ELSE st
    IN IF w.old_callback # NoCallback
       THEN LET awaited == tmp_call(w.old_callback.wait, info, set)
            IN IF awaited.raised # "" THEN awaited
               ELSE [awaited EXCEPT !.callbacks = Put(@, w.type, w.old_callback)]
       ELSE IF w.type \in DOMAIN set.callbacks
       THEN [set EXCEPT !.callbacks = Del(@, w.type)]
       ELSE [set EXCEPT !.raised = "KeyError"]

\* the task of a wrapper coroutine runs
RunTmp ==
    /\ ready # <<>>
    /\ Head(ready).kind = "tmp"
    /\ LET r == tmp_call(Head(ready).wait, Head(ready).info,
                         [callbacks |-> callbacks, waits |-> waits,
                          ready |-> Tail(ready), raised |-> ""])
       IN /\ callbacks' = r.callbacks
          /\ waits' = r.waits
          /\ ready' = r.ready
    /\ UNCHANGED <<chat, net, server, down, emitted>>
    /\ UNCHANGED <<reqs, futs, wire, tasks, held, lastCall, chained, bundled, spawned,
                   default_callback, invoked, coros, waiter, discVars>>

\* a fresh connection: no call yet, the event class disabled at the server
InitWaits ==
    /\ waits = <<>>
    /\ chat = NoChatCall
    /\ net = <<>>
    /\ server = [enabled |-> FALSE, handled |-> 0]
    /\ down = <<>>
    /\ ready = <<>>
    /\ emitted = <<>>

\* ---------------------------------------------------------------- rotation
\* constants.py, lines 56-79: the members of RoMethod and their wire strings
RoMethod ==
    [LINEAR |-> "linear", SINE |-> "sine", QUADRATIC_IN |-> "quadraticIn",
     CUBIC_IN |-> "cubicIn", QUARTIC_IN |-> "quarticIn", QUINTIC_IN |-> "quinticIn",
     SEXTIC_IN |-> "sexticIn", QUADRATIC_OUT |-> "quadraticOut",
     CUBIC_OUT |-> "cubicOut", QUARTIC_OUT |-> "quarticOut",
     QUINTIC_OUT |-> "quinticOut", SINE_IN_OUT |-> "sineInOut",
     QUADRATIC_IN_OUT |-> "quadraticInOut", CUBIC_IN_OUT |-> "cubicInOut",
     QUARTIC_IN_OUT |-> "quarticInOut", QUINTIC_IN_OUT |-> "quinticInOut",
     EXPONENTIAL_IN |-> "exponentialIn", EXPONENTIAL_OUT |-> "exponentialOut",
     EXPONENTIAL_IN_OUT |-> "exponentialInOut", ELASTIC_OUT |-> "elasticOut"]

\* the attribute lookup RoMethod.<name>
RoMethodMember(name) ==
    IF name \in DOMAIN RoMethod THEN Return([member |-> name])
    ELSE Raise("AttributeError", name, "")

\* Player.arotate(pitch, yaw, speed, method), lines 866-893: what it returns or
\* raises. Line 883 evaluates RoMethod.INSTANT before it compares.
arotate(pitch, yaw, speed, method) ==
    IF RoMethodMember("INSTANT").kind = "raise" THEN RoMethodMember("INSTANT")
    ELSE IF method = "INSTANT"
    THEN Raise("AssertionError", "Not a supported rotation method.", "")
    ELSE Return(LazyRequest(Connection, "algorithmic rotation",
                            ("degrees per tick" :> speed)
                              @@ [pitch |-> pitch, yaw |-> yaw,
                                  interpolation |-> RoMethod[method]],
                            FALSE, "j", NoModifier))

\* the caller calls player.arotate
Arotate(pitch, yaw, speed, method) ==
    /\ lastCall = Idle
    /\ Len(reqs) < MaxReqs
    /\ LET r == arotate(pitch, yaw, speed, method)
       IN IF r.kind = "raise"
          THEN /\ lastCall' = [Call("arotate", <<>>, r.exc, <<>>)
                                  EXCEPT !.method = method,
                                         !.input = <<pitch, yaw, speed>>,
                                         !.outcome = r]
               /\ UNCHANGED <<reqs, held, chained>>
          ELSE /\ reqs' = Append(reqs, r.value)
               /\ held' = held \cup {Len(reqs) + 1}
               /\ chained' = Append(chained, <<>>)
               /\ lastCall' = [Call("arotate", <<>>, "ok", <<Len(reqs) + 1>>)
                                  EXCEPT !.method = method,
                                         !.input = <<pitch, yaw, speed>>]
    /\ UNCHANGED <<futs, wire, tasks, bundled, spawned, evVars, discVars, waitVars>>

\* --------------------------------------------------------------- inventory
\* the widest inventory of an entity that is opened
MaxCols == 5

\* An Inventory subclass by its class attributes (lines 1034-1049); None is
\* <<>>. An instance has slot_data as well.
InventoryClass(container_type, player_inventory_offset, container_offset, container_width, container_height) ==
    [container_type |-> container_type,
     player_inventory_offset |-> player_inventory_offset,
     container_offset |-> container_offset,
     container_width |-> container_width,
     container_height |-> container_height,
     slot_data |-> <<>>]

\* lines 1121-1194, 1284-1323, 1377-1380: the classes with a grid, and Lectern,
\* which has no player inventory. EntityWithInventory sets no class attribute
\* but the type, so it starts from those of Inventory. InventoryClasses has
\* the abstract class Inventory itself as well, which has no type.
Generic9xN ==
    <<InventoryClass("generic_9x1", <<9>>, <<0>>, <<9>>, <<1>>),
      InventoryClass("generic_9x2", <<18>>, <<0>>, <<9>>, <<2>>),
      InventoryClass("generic_9x3", <<27>>, <<0>>, <<9>>, <<3>>),
      InventoryClass("generic_9x4", <<36>>, <<0>>, <<9>>, <<4>>),
      InventoryClass("generic_9x5", <<45>>, <<0>>, <<9>>, <<5>>),
      InventoryClass("generic_9x6", <<54>>, <<0>>, <<9>>, <<6>>)>>
Generic3x3 == InventoryClass("generic_3x3", <<9>>, <<0>>, <<3>>, <<3>>)
Crafter == [Generic3x3 EXCEPT !.container_type = "crafter"]
ShulkerBox == [Generic9xN[3] EXCEPT !.container_type = "shulker_box"]
CraftingTable ==
    [Generic3x3 EXCEPT !.container_type = "crafting_table", !.container_offset = <<1>>,
                       !.player_inventory_offset = <<10>>]
Hopper == InventoryClass("hopper", <<5>>, <<0>>, <<5>>, <<1>>)
Lectern == InventoryClass("lectern", <<>>, <<>>, <<>>, <<>>)
EntityWithInventory == InventoryClass("horse", <<9>>, <<>>, <<>>, <<>>)

InventoryClasses ==
    {Generic9xN[n] : n \in 1..6}
        \cup {Generic3x3, Crafter, ShulkerBox, CraftingTable, Hopper, Lectern,
              EntityWithInventory, InventoryClass(None, <<9>>, <<>>, <<>>, <<>>)}

\* the horse_data a screen is opened with: None, or the columns of the
\* entity's inventory
HorseData(class) ==
    IF class.container_type = "horse"
    THEN {<<>>} \cup {<<("inventory cols" :> c)>> : c \in 0..MaxCols}
    ELSE {<<>>}

\* Inventory.__init__ (lines 1051-1056) on slot_data with this many slots: slot
\* i gets the id i
Inventory_init(self, slots) ==
    IF self.container_type = None
    THEN Raise("AssertionError", "Cannot initialize absract inventory", "")
    ELSE Return([self EXCEPT !.slot_data = [i \in 1..slots |-> [id |-> i - 1]]])

\* EntityWithInventory.__init__ (lines 1382-1390)
EntityWithInventory_init(self, slots, horse_data) ==
    IF horse_data = <<>> THEN Raise("AssertionError", "", "")
    ELSE Inventory_init(
            [self EXCEPT !.container_height = <<3>>,
                         !.container_width = <<horse_data[1]["inventory cols"]>>,
                         !.player_inventory_offset = <<2 + 3 * 3>>],
            slots)

\* class(player, slot_data, horse_data=horse_data)
new_inventory(class, slots, horse_data) ==
    IF class.container_type = "horse"
    THEN EntityWithInventory_init(class, slots, horse_data)
    ELSE Inventory_init(class, slots)

\* Inventory.get_slot (lines 1058-1060): list indexing, which counts a
\* negative index from the end
get_slot(self, slot) ==
    IF slot \in 0..(Len(self.slot_data) - 1) THEN Return(self.slot_data[slot + 1])
    ELSE IF -slot \in 1..Len(self.slot_data)
    THEN Return(self.slot_data[Len(self.slot_data) + slot + 1])
    ELSE Raise("IndexError", "list index out of range", "")

\* Inventory.get_inventory_slot (lines 1062-1073)
get_inventory_slot(self, row, column) ==
    IF self.player_inventory_offset = <<>>
    THEN Raise("AssertionError", "This inventory lacks the player's inventory", "")
    ELSE get_slot(self, row * 9 + column + self.player_inventory_offset[1])

\* The slots of the screen the server opens: those of the container, then the
\* 36 of the player (none on a lectern). An entity has a saddle slot, an armor
\* slot and three rows of its columns. The abstract class is given the slots
\* of the player alone.
PlayerSlots == 36
container_slots(class, horse_data) ==
    IF class.container_type = "horse"
    THEN 2 + 3 * (IF horse_data = <<>> THEN 0 ELSE horse_data[1]["inventory cols"])
    ELSE IF class.container_type = "lectern" THEN 1
    ELSE IF class.container_type = None THEN 0
    ELSE class.container_offset[1] + class.container_width[1] * class.container_height[1]
screen_slots(class, horse_data) ==
    container_slots(class, horse_data)
        + (IF class.container_type = "lectern" THEN 0 ELSE PlayerSlots)

\* a screen of this class is opened and the caller asks for a slot of the
\* player's inventory
GetInventorySlot(class, horse_data, row, column) ==
    /\ lastCall = Idle
    /\ LET made == new_inventory(class, screen_slots(class, horse_data), horse_data)
           r == IF made.kind = "raise" THEN made
                ELSE get_inventory_slot(made.value, row, column)
       IN lastCall' = [Call("get_inventory_slot", <<>>,
                            IF r.kind = "raise" THEN r.exc ELSE "ok",
                            IF r.kind = "raise" THEN <<>> ELSE <<r.value.id>>)
                          EXCEPT !.event = class.container_type,
                                 !.outcome = IF r.kind = "raise" THEN r
                                             ELSE lastCall.outcome,
                                 !.input = <<row, column>>
                                           \o (IF horse_data = <<>> THEN <<>>
                                               ELSE <<horse_data[1]["inventory cols"]>>)]
    /\ UNCHANGED <<reqs, futs, wire, tasks, held, chained, bundled, spawned, evVars,
                   discVars, waitVars>>

\* Player.__init__: no handler, no default handler
InitEvents ==
    /\ callbacks = [k \in {} |-> NoCallback]
    /\ default_callback = NoCallback
    /\ invoked = EmptyBag
    /\ coros = <<>>
    /\ waiter = NoWaiter

Init ==
    /\ reqs = <<>>
    /\ futs = <<>>
    /\ wire = <<>>
    /\ tasks = {}
    /\ held = {}
    /\ lastCall = Idle
    /\ chained = <<>>
    /\ bundled = <<>>
    /\ spawned = {}
    /\ InitEvents
    /\ InitDiscovery
    /\ InitWaits

Next ==
    \/ \E c \in Constructions : Construct(c[1], c[2], c[3])
    \/ \E i \in held, predicate \in Predicates : Map(i, predicate)
    \/ \E i \in held, sent \in BOOLEAN : Await(i, sent)
    \/ \E i \in held, sent \in BOOLEAN : Start(i, sent)
    \/ \E packets \in PacketLists, method \in BundleMethods, ticks \in TicksArgs :
          Bundle(packets, method, ticks)
    \/ \E packets \in PacketLists, method \in BundleMethods, ticks \in TicksArgs :
          BundleP(packets, method, ticks)
    \/ \E i \in tasks, sent \in BOOLEAN : RunTask(i, sent)
    \/ \E id \in DOMAIN futs : \E reply \in Replies(id) : Resolve(id, reply)
    \/ Resume

Spec == Init /\ [][Next]_vars

\* the session's event side: registration (the requests returned not kept),
\* dispatch and the coroutines the handlers return
NextEvents ==
    \/ \E callback \in DefaultHandlers : SetDefaultCallback(callback)
    \/ \E type \in Types, callback \in PlainHandlers \cup {NoCallback} :
          SetCallback(type, callback, FALSE)
    \/ \E type \in Types : RemoveCallback(type, FALSE)
    \/ \E idd \in Idds, callbackType \in StateArgs, callback \in Handlers :
          SetPacketCallback(idd, callbackType, callback, FALSE)
    \/ \E idd \in Idds : RemovePacketCallback(idd, FALSE)
    \/ ClearCallbacks(FALSE)
    \/ \E type \in EventIds : Dispatch(type)
    \/ RunCoro
    \/ \E k \in DOMAIN coros : FinishCoro(k)
    \/ ResumeSession

SpecEvents == Init /\ [][NextEvents]_vars

\* the session's operations that do I/O: the request of set_callback awaited,
\* wait_for_callback with the events of its type, and has_baritone
NextSession ==
    \/ \E type \in Types, callback \in PlainHandlers : SetCallback(type, callback, TRUE)
    \/ \E type \in Types : RemoveCallback(type, TRUE)
    \/ ClearCallbacks(TRUE)
    \/ \E type \in Types : Dispatched < MaxWaitEvents /\ Dispatch(type)
    \/ RunCoro
    \/ \E k \in DOMAIN coros : FinishCoro(k)
    \/ \E type \in Types : WaitForCallback(type)
    \/ WaitStatesReply
    \/ WaitReturn
    \/ HasBaritone
    \/ HasBaritoneReply
    \/ \E i \in held : Await(i, TRUE)
    \/ tasks # {} /\ RunTask(NextTask, TRUE)
    \/ \E id \in DOMAIN futs : \E reply \in RepliesTo(id) : Resolve(id, reply)
    \/ ResumeSession

SpecSession == Init /\ [][NextSession]_vars

\* Discovery: discover calls, the packets that arrive while they scan, and the
\* end of opening the connection.
NextDiscovery ==
    \/ \E with_name \in Names : Discover(with_name)
    \/ \E data \in Datagrams, addr \in Sources : Receive(data, addr)
    \/ \E outcome \in StartOutcomes : ConnectionStarted(outcome)

SpecDiscovery == Init /\ [][NextDiscovery]_vars

\* Calls of wait_for_callback and wait_for_chat by two tasks, the server, the
\* reading task and the event loop.
NextWaits ==
    \/ \E c \in Callers : WaitBegin(c, "CHAT")
    \/ \E c \in Callers, predicate \in ChatStrings : WaitForChat(c, predicate)
    \/ ServerHandle
    \/ \E message \in Messages : ServerEmit(message)
    \/ ClientReceive
    \/ RunRequest
    \/ WaitRegister
    \/ WaitReturned
    \/ RunTmp

SpecWaits == Init /\ [][NextWaits]_vars

\* Calls that build a request or read a slot without any I/O: arotate with
\* angles in degrees, a speed and a member of RoMethod; a slot of the four rows
\* and nine columns of the player's inventory on a screen.
NextTools ==
    \/ \E pitch \in {-90, 0, 45}, yaw \in {0, 180}, speed \in {3, 10} :
          \E method \in DOMAIN RoMethod : Arotate(pitch, yaw, speed, method)
    \/ \E class \in InventoryClasses, row \in 0..3, column \in 0..8 :
          \E horse_data \in HorseData(class) :
              GetInventorySlot(class, horse_data, row, column)
    \/ Resume

SpecTools == Init /\ [][NextTools]_vars

\* ------------------------------------------------------------------ claims
\* a step in which the operation op, given the requests args, has just ended
Ended(op, args) == lastCall = Idle /\ lastCall'.op = op /\ lastCall'.args = args

\* C1: awaiting a request that has already been awaited, or awaiting its
\* start(), raises AssertionError and writes no frame and creates no
\* correlation entry, whatever modifier the request carries.
C1_SecondAwaitFails ==
    [][\A i \in DOMAIN reqs :
          ((Ended("await", <<i>>) \/ Ended("start", <<i>>)) /\ reqs[i].executed)
          => /\ lastCall'.result = "AssertionError"
             /\ wire' = wire
             /\ futs' = futs
             /\ reqs' = reqs]_vars

\* a second await has failed on a request that carries two chained transforms
C1_Witness ==
    /\ lastCall.op \in {"await", "start"}
    /\ lastCall.result = "AssertionError"
    /\ Len(chained[lastCall.args[1]]) = 2
    /\ \E id \in DOMAIN futs : futs[id].owner = lastCall.args[1]

\* the frames built for request i: the correlation entries it owns
FramesOf(i) == {id \in DOMAIN futs : futs[id].owner = i}

\* C2: no request instance ever produces more than one frame, over any sequence
\* of await, start and bundle operations.
C2_AtMostOneFrame == \A i \in DOMAIN reqs : Cardinality(FramesOf(i)) <= 1

\* the reply to a frame of request i has just been handed on
Replied(i) == lastCall.op = "reply" /\ lastCall.args = <<i>>

\* the structured error shape
IsErrorShape(reply) == reply.tag = "j" /\ Get(reply.data, "status", None) = "error"

\* the functions fs applied one after the other, the first of fs first
RECURSIVE ApplyChain(_, _)
ApplyChain(fs, v) == IF fs = <<>> THEN v ELSE ApplyChain(Tail(fs), Apply(Head(fs), v))

\* a structured payload without its transport-only fields
Stripped(data) == [k \in (DOMAIN data) \ {"status", "id"} |-> data[k]]

\* the payload handed to the transform chain of request self
Decoded(self, reply) == IF self.raw THEN reply.data ELSE Stripped(reply.data)

\* chain fs continued by at least one more function
Extends(gs, fs) == Len(gs) > Len(fs) /\ SubSeq(gs, 1, Len(fs)) = fs

\* C3: when a request made by .map(f).map(g) yields a value, the value is
\* g(f(v)), v being what the request they were chained on yields for the same
\* reply: its decoded payload after the transforms it already had.
C3_MapsComposeInOrder ==
    \A i \in DOMAIN reqs :
        (Replied(i) /\ lastCall.outcome.kind = "return" /\ Len(chained[i]) >= 2)
        => LET n == Len(chained[i])
               f == chained[i][n - 1]
               g == chained[i][n]
               v == ApplyChain(SubSeq(chained[i], 1, n - 2),
                               Decoded(reqs[i], lastCall.reply))
           IN lastCall.outcome.value = Apply(g, Apply(f, v))

\* a request built with h and mapped with f, then g, has yielded g(f(h(payload)))
C3_Witness ==
    \E i \in DOMAIN reqs :
        /\ Replied(i)
        /\ chained[i] = <<Tagging("h"), Tagging("f"), Tagging("g")>>
        /\ lastCall.outcome.kind = "return"
        /\ lastCall.outcome.value.fn = "g"
        /\ lastCall.outcome.value.arg.fn = "f"
        /\ lastCall.outcome.value.arg.arg.fn = "h"

\* request i has been sent: a frame built for it has reached the transport
Sent(i) == \E id \in FramesOf(i) : futs[id].state # "prepared"

\* C4: map on a request that has already been sent fails and returns no request.
C4_MapOnSentFails ==
    \A i \in DOMAIN reqs :
        (lastCall.op = "map" /\ lastCall.args = <<i>> /\ Sent(i))
        => (lastCall.result = "AssertionError" /\ lastCall.ret = <<>>)

\* C5: map(f) on a request not yet awaited returns a new, not-sent request with
\* the same connection, command, extra, raw flag and expected tag whose modifier
\* is f after the old modifier, and changes no existing request; when the
\* original is awaited afterwards it yields its result without f applied.
C5_MapReturnsNewRequest ==
    /\ [][\A i \in DOMAIN reqs :
            (Ended("map", <<i>>) /\ ~reqs[i].executed)
            => LET n == Len(reqs) + 1 IN
               /\ lastCall'.result = "ok"
               /\ lastCall'.ret = <<n>>
               /\ Len(reqs') = n
               /\ reqs'[n].connection = reqs[i].connection
               /\ reqs'[n].message = reqs[i].message
               /\ reqs'[n].extra = reqs[i].extra
               /\ reqs'[n].raw = reqs[i].raw
               /\ reqs'[n].required_type = reqs[i].required_type
               /\ ~reqs'[n].executed
               /\ \A data \in {[bytes |-> <<0>>], [mods |-> "m"]} :
                     CallModifier(reqs'[n].modifier, data)
                        = ApplyChain(Append(chained[i], chained'[n][Len(chained'[n])]),
                                     data)
               /\ \A j \in DOMAIN reqs : reqs'[j] = reqs[j]]_vars
    /\ [](\A i \in DOMAIN reqs :
            (Replied(i) /\ lastCall.outcome.kind = "return"
                /\ \E j \in DOMAIN reqs : Extends(chained[j], chained[i]))
            => lastCall.outcome.value
                  = ApplyChain(chained[i], Decoded(reqs[i], lastCall.reply)))

\* a raw request was mapped and then awaited itself: it yields the bare payload
C5_Witness ==
    \E i, j \in DOMAIN reqs :
        /\ Replied(i)
        /\ reqs[i].raw /\ reqs[j].raw
        /\ chained[i] = <<>>
        /\ chained[j] = <<Tagging("f")>>
        /\ ~reqs[j].executed
        /\ lastCall.outcome = Return(lastCall.reply.data)

\* the future with this packet id was made by soft_send and its frame travelled
\* inside a bundle frame
ViaBundle(id) ==
    \E k \in DOMAIN wire : wire[k].cmd = "bundle" /\ id \in PacketIds(wire[k]) \ {wire[k].id}

\* C6: a structured reply with status "error" always ends the request's future
\* with a PuppeteerError whose kind is the table's entry for the reply's type
\* (UNKNOWN_ERROR for a missing or unlisted type) and whose text carries the
\* server's message, whatever tag and raw flag the request declared, awaited or
\* bundled.
C6_ErrorReplyRaisesMappedKind ==
    \A i \in DOMAIN reqs :
        (Replied(i) /\ IsErrorShape(lastCall.reply))
        => LET data == lastCall.reply.data
               type == Get(data, "type", None)
           IN lastCall.outcome =
                 Raise("PuppeteerError",
                       "Error: " \o Get(data, "message", ""),
                       IF type \in DOMAIN error_str_to_enum
                       THEN error_str_to_enum[type] ELSE "UNKNOWN_ERROR")

\* a bundled raw request that declared a raw tag got an error of unlisted type
C6_Witness ==
    \E i \in DOMAIN reqs :
        /\ Replied(i)
        /\ ViaBundle(lastCall.ret[1])
        /\ reqs[i].raw /\ reqs[i].required_type \in {"b", "n"}
        /\ IsErrorShape(lastCall.reply)
        /\ Get(lastCall.reply.data, "type", None) = "bogus"
        /\ lastCall.outcome.etype = "UNKNOWN_ERROR"
        /\ lastCall.outcome.msg = "Error: boom"

\* C7: a reply that is not the error shape and whose tag differs from the
\* declared tag ends the future with the protocol-mismatch PuppeteerError, and
\* no transform is applied (no value is produced).
C7_TagMismatchRaises ==
    \A i \in DOMAIN reqs :
        (Replied(i) /\ ~IsErrorShape(lastCall.reply)
            /\ lastCall.reply.tag # reqs[i].required_type)
        => lastCall.outcome =
              Raise("PuppeteerError", "Packet type was not as expeced", DefaultEtype)

\* a raw request with a chained transform that declared "b" got an "n" reply
C7_Witness ==
    \E i \in DOMAIN reqs :
        /\ Replied(i)
        /\ reqs[i].raw /\ reqs[i].required_type = "b" /\ chained[i] # <<>>
        /\ lastCall.reply.tag = "n"
        /\ lastCall.outcome.kind = "raise"

\* C8: for a reply that is not the error shape and carries the declared tag, a
\* structured request (not raw, tag "j") yields the payload without status and
\* id, every other field kept, passed through its chain; a raw request yields
\* the payload as received passed through its chain.
C8_DecodedValue ==
    \A i \in DOMAIN reqs :
        (Replied(i) /\ ~IsErrorShape(lastCall.reply)
            /\ lastCall.reply.tag = reqs[i].required_type
            /\ (reqs[i].raw \/ reqs[i].required_type = "j"))
        => lastCall.outcome =
              Return(ApplyChain(chained[i],
                                IF reqs[i].raw THEN lastCall.reply.data
                                ELSE [k \in (DOMAIN lastCall.reply.data) \ {"status", "id"}
                                         |-> lastCall.reply.data[k]]))

\* a structured request with one chained transform has yielded f({"mods": ...})
C8_Witness ==
    \E i \in DOMAIN reqs :
        /\ Replied(i)
        /\ ~reqs[i].raw /\ reqs[i].required_type = "j"
        /\ chained[i] = <<Tagging("f")>>
        /\ lastCall.reply.tag = "j"
        /\ Get(lastCall.reply.data, "status", None) = "ok"
        /\ lastCall.outcome = Return([fn |-> "f", arg |-> [mods |-> "m"]])

\* C9: bundle or bundle_p called with ticks and a method other than TICKLY
\* raises within the call; no frame is written, no request is created and no
\* task is started.
C9_TicksRejectedBeforeIO ==
    [][\A op \in {"bundle", "bundle_p"} :
          (lastCall = Idle /\ lastCall'.op = op
              /\ lastCall'.ticks # <<>> /\ lastCall'.method # "TICKLY")
          => /\ lastCall'.result \in {"AttributeError", "ValueError"}
             /\ lastCall'.ret = <<>>
             /\ wire' = wire
             /\ reqs' = reqs
             /\ tasks' = tasks]_vars

\* an INSTANT bundle of two requests with ticks has raised AttributeError
C9_Witness ==
    /\ lastCall.op = "bundle"
    /\ lastCall.method = "INSTANT"
    /\ lastCall.ticks = <<2>>
    /\ Len(lastCall.args) = 2
    /\ lastCall.result = "AttributeError"

\* C10: in a TICKLY bundle with ticks, the k-th future returned ends, on any
\* reply, as awaiting the k-th request given would end on that reply.
C10_BundledAsAwaited ==
    \A b \in DOMAIN bundled : \A k \in DOMAIN bundled[b].ids :
        (bundled[b].method = "TICKLY" /\ bundled[b].ticks # <<>>
            /\ lastCall.op = "reply" /\ lastCall.ret = <<bundled[b].ids[k]>>)
        => lastCall.outcome =
              _transform_future(reqs[bundled[b].packets[k]],
                                lastCall.reply.tag, lastCall.reply.data)

\* the second future of a TICKLY bundle of a request and its map has yielded
\* the mapped value
C10_Witness ==
    \E b \in DOMAIN bundled :
        /\ bundled[b].method = "TICKLY" /\ bundled[b].ticks = <<2>>
        /\ Len(bundled[b].packets) = 2
        /\ bundled[b].packets[1] # bundled[b].packets[2]
        /\ chained[bundled[b].packets[2]] # <<>>
        /\ lastCall.op = "reply" /\ lastCall.ret = <<bundled[b].ids[2]>>
        /\ lastCall.outcome.kind = "return"
        /\ futs[bundled[b].ids[1]].state = "written"

\* C11: the outer request of every accepted bundle call has command "bundle";
\* its payload holds one serialized sub-frame per request given, in the order
\* given, each with the packet id of the future returned at that position; its
\* method field is the policy's name; it has a ticks field exactly when ticks
\* were given, which happens for the tick-sequenced method only.
C11_OuterBundlePayload ==
    \A b \in DOMAIN bundled :
        LET rec == bundled[b]
            outer == reqs[rec.outer]
        IN /\ outer.message = "bundle"
           /\ DOMAIN outer.extra.packets = DOMAIN rec.packets
           /\ \A k \in DOMAIN rec.packets :
                 outer.extra.packets[k] =
                    [id |-> rec.ids[k], cmd |-> reqs[rec.packets[k]].message,
                     extra |-> reqs[rec.packets[k]].extra]
           /\ outer.extra.method = MethodValue(rec.method)
           /\ ("ticks" \in DOMAIN outer.extra) <=> (rec.ticks # <<>>)
           /\ ("ticks" \in DOMAIN outer.extra)
                 => (rec.method = "TICKLY" /\ outer.extra.ticks = rec.ticks[1])

\* the frame of a TICKLY bundle of two different requests is on the transport
\* with its two sub-frames and its tick count
C11_Witness ==
    /\ \E k \in DOMAIN wire :
          /\ wire[k].cmd = "bundle"
          /\ Len(wire[k].extra.packets) = 2
          /\ wire[k].extra.packets[1].id # wire[k].extra.packets[2].id
          /\ wire[k].extra.method = "TICKLY"
          /\ "ticks" \in DOMAIN wire[k].extra
          /\ wire[k].extra.ticks = 2
    /\ \E b \in DOMAIN bundled :
          /\ bundled[b].method = "TICKLY"
          /\ bundled[b].packets[1] # bundled[b].packets[2]

\* the request bundle_p returned for the accepted bundle call b
Mapped(b) == bundled[b].outer + 1

\* C12: when the server acknowledges the frame of a bundle_p request, the
\* request yields the futures of the sub-requests, in order, and the step
\* changes no sub-future; a sub-future becomes resolved only in the step in
\* which the reply to its own packet id arrives.
C12_AckYieldsSubFutures ==
    /\ [](\A b \in DOMAIN bundled :
            (bundled[b].op = "bundle_p" /\ Replied(Mapped(b))
                /\ lastCall.reply.tag = "j" /\ ~IsErrorShape(lastCall.reply)
                /\ "status" \in DOMAIN lastCall.reply.data)
            => lastCall.outcome = Return([futures |-> bundled[b].ids]))
    /\ [][\A id \in DOMAIN futs :
            (futs[id].state # "resolved" /\ futs'[id].state = "resolved")
            => (lastCall'.op = "reply" /\ lastCall'.ret = <<id>>)]_vars

\* the acknowledgment of a bundle_p of two requests has arrived and yields the
\* two futures while the second is resolved and the first is not
C12_Witness ==
    \E b \in DOMAIN bundled :
        /\ bundled[b].op = "bundle_p"
        /\ Len(bundled[b].ids) = 2
        /\ Replied(Mapped(b))
        /\ lastCall.outcome = Return([futures |-> bundled[b].ids])
        /\ futs[bundled[b].ids[1]].state = "written"
        /\ futs[bundled[b].ids[2]].state = "resolved"

\* a step in which the send of the outer request of bundle call b fails: its
\* frame gets an error-shaped reply, or write_packet fails on a cut transport
OuterSendFails(b) ==
    /\ bundled[b].op = "bundle"
    /\ lastCall = Idle
    /\ lastCall'.args = <<bundled[b].outer>>
    /\ \/ lastCall'.op = "reply" /\ lastCall'.outcome.kind = "raise"
       \/ lastCall'.result = ConnectionError.exc

\* C13: bundle returns the futures of the sub-requests at once, having written
\* nothing and having handed the outer request to a task of its own; whatever
\* reply the outer frame gets, an error included, goes to that task and not to
\* the caller, and the step changes no sub-future; and a failure of the outer
\* send, by an error reply or by the connection, is raised in that task, which
\* the caller of bundle has no reference to, and changes no sub-future.
C13_FireAndForget ==
    /\ [][(lastCall = Idle /\ lastCall'.op = "bundle" /\ lastCall'.result = "ok")
            => /\ Len(lastCall'.ret) = Len(lastCall'.args)
               /\ \A k \in DOMAIN lastCall'.ret :
                     /\ lastCall'.ret[k] = Len(futs) + k
                     /\ futs'[lastCall'.ret[k]].owner = lastCall'.args[k]
                     /\ futs'[lastCall'.ret[k]].state = "prepared"
               /\ wire' = wire
               /\ Len(reqs') = Len(reqs) + 1
               /\ reqs'[Len(reqs')].message = "bundle"
               /\ Len(reqs') \in tasks'
               /\ Len(reqs') \notin held']_vars
    /\ [][\A b \in DOMAIN bundled :
            (bundled[b].op = "bundle" /\ lastCall = Idle
                /\ lastCall'.op = "reply" /\ lastCall'.args = <<bundled[b].outer>>)
            => /\ lastCall'.to = "task"
               /\ bundled[b].outer \notin held
               /\ \A k \in DOMAIN bundled[b].ids :
                     futs'[bundled[b].ids[k]] = futs[bundled[b].ids[k]]]_vars
    /\ [][\A b \in DOMAIN bundled :
            OuterSendFails(b)
            => /\ lastCall'.op \in {"reply", "task"}
               /\ lastCall'.to = "task"
               /\ bundled[b].outer \notin held
               /\ held' = held
               /\ \A k \in DOMAIN bundled[b].ids :
                     futs'[bundled[b].ids[k]] = futs[bundled[b].ids[k]]]_vars

\* the send of the outer request of a bundle of two has failed on a cut
\* transport, in its task: no frame was written, the two sub-futures are as
\* bundle returned them, and the caller holds only the two sub-requests
C13_Witness ==
    \E b \in DOMAIN bundled :
        /\ bundled[b].op = "bundle"
        /\ Len(bundled[b].ids) = 2
        /\ bundled[b].ids[1] # bundled[b].ids[2]
        /\ lastCall.op = "task"
        /\ lastCall.args = <<bundled[b].outer>>
        /\ lastCall.outcome = ConnectionError
        /\ lastCall.to = "task"
        /\ wire = <<>>
        /\ \A k \in DOMAIN bundled[b].ids : futs[bundled[b].ids[k]].state = "prepared"
        /\ bundled[b].outer \notin held

\* ----------------------------------------------------------- claims, events
\* a step that is the dispatch of one frame with this event id
DispatchStep(type) ==
    lastCall = Idle /\ lastCall'.op = "dispatch" /\ lastCall'.event = type

\* the registry entry for this id was registered one-shot, or persistent
OneShot(type) == type \in DOMAIN callbacks /\ callbacks[type].kind = "removal_wrapper"
Persistent(type) == type \in DOMAIN callbacks /\ callbacks[type].kind = "user"

\* every registry entry but the one for this id is as it was
OthersKept(type) ==
    \A other \in (DOMAIN callbacks) \ {type} :
        other \in DOMAIN callbacks' /\ callbacks'[other] = callbacks[other]

\* how often the handler with this name was called for this event id by this party
Calls(name, type, by) == CopiesIn([name |-> name, type |-> type, by |-> by], invoked)
CallsAfter(name, type, by) == CopiesIn([name |-> name, type |-> type, by |-> by], invoked')

\* C14: an error-shaped reply to a request a session operation issued ends the
\* operation, for its caller, with the mapped PuppeteerError (has_baritone and
\* wait_for_callback included), and an error reply reaches a task nobody looks
\* at only when the request was handed to _ignored_request.
C14_OnlyIgnoredRequestDropsErrors ==
    /\ (lastCall.to = "caller" /\ IsErrorShape(lastCall.reply))
          => lastCall.outcome =
                Raise("PuppeteerError",
                      "Error: " \o Get(lastCall.reply.data, "message", ""),
                      str2error(Get(lastCall.reply.data, "type", None)))
    /\ (lastCall.op = "reply" /\ lastCall.to = "task" /\ IsErrorShape(lastCall.reply))
          => [req |-> lastCall.args[1], by |-> "_ignored_request"] \in spawned

\* the error that an error-shaped reply is mapped to
MappedError(reply) ==
    Raise("PuppeteerError", "Error: " \o Get(reply.data, "message", ""),
          str2error(Get(reply.data, "type", None)))

\* C14, as the code has it: an error-shaped reply raises the mapped error in
\* whoever awaits the request, and wait_for_callback passes the error of its
\* query on to its caller; has_baritone returns False on an error reply; the
\* awaiting party is a task nobody looks at for the requests of
\* _ignored_request and for the enable request that wait_for_callback starts
\* with create_task.
C14_ErrorDrops ==
    /\ (lastCall.op \in {"reply", "wait_for_callback"} /\ IsErrorShape(lastCall.reply)
           /\ lastCall.to \in {"caller", "task"})
          => lastCall.outcome = MappedError(lastCall.reply)
    /\ (lastCall.op = "has_baritone" /\ IsErrorShape(lastCall.reply))
          => lastCall.outcome = Return([bool |-> FALSE])
    /\ (lastCall.op = "reply" /\ lastCall.to = "task" /\ IsErrorShape(lastCall.reply))
          => \E by \in {"_ignored_request", "create_task"} :
                [req |-> lastCall.args[1], by |-> by] \in spawned

\* has_baritone has returned False on an error-shaped reply
C14_Witness ==
    /\ lastCall.op = "has_baritone"
    /\ lastCall.to = "caller"
    /\ IsErrorShape(lastCall.reply)
    /\ lastCall.outcome = Return([bool |-> FALSE])

\* C15: the dispatch of an event whose entry is one-shot calls the handler
\* once and leaves the id without an entry (unless the handler registered
\* itself again), every other entry kept; an event whose id has no entry calls
\* no handler registered before; the dispatch of an event whose entry is
\* persistent calls the handler once and keeps the entry.
C15_OneShotFiresOnce ==
    [][\A type \in EventIds :
          DispatchStep(type) =>
             /\ OneShot(type) =>
                   /\ Len(lastCall'.calls) = 1
                   /\ lastCall'.calls[1].name = callbacks[type].callback.name
                   /\ lastCall'.calls[1].info = lastCall'.reply.data
                   /\ CallsAfter(callbacks[type].callback.name, type, "entry") =
                         Calls(callbacks[type].callback.name, type, "entry") + 1
                   /\ ~callbacks[type].callback.reregisters
                         => type \notin DOMAIN callbacks'
                   /\ OthersKept(type)
             /\ type \notin DOMAIN callbacks =>
                   /\ \A k \in DOMAIN lastCall'.calls : lastCall'.calls[k].by = "default"
                   /\ \A name \in {"h", "a", "r"} :
                         CallsAfter(name, type, "entry") = Calls(name, type, "entry")
             /\ (Persistent(type) /\ ~callbacks[type].reregisters) =>
                   /\ Len(lastCall'.calls) = 1
                   /\ lastCall'.calls[1].name = callbacks[type].name
                   /\ callbacks' = callbacks]_vars

\* the persistent handler of CHAT has just been called a second time, after
\* the one-shot handler of the packet id was called once, lost its entry, and
\* a further event of the packet id found nobody
C15_Witness ==
    /\ lastCall.op = "dispatch" /\ lastCall.event = "CHAT"
    /\ Len(lastCall.calls) = 1 /\ lastCall.calls[1].by = "entry"
    /\ Calls(lastCall.calls[1].name, "CHAT", "entry") = 2
    /\ "CHAT" \in DOMAIN callbacks
    /\ \E idd \in Idds :
          /\ Calls("h", idd, "entry") = 1
          /\ Calls("", idd, "nobody") = 1
          /\ idd \notin DOMAIN callbacks

\* C16: when the dispatch calls a one-shot handler, the registry has no entry
\* for the event id at the moment of the call, and a handler that registers
\* itself again for the id in its body is registered, one-shot, when the
\* dispatch has ended.
C16_RemovedBeforeInvoked ==
    [][\A type \in EventIds :
          (DispatchStep(type) /\ OneShot(type)) =>
             /\ Len(lastCall'.calls) = 1
             /\ ~lastCall'.calls[1].registered
             /\ callbacks[type].callback.reregisters
                   => /\ type \in DOMAIN callbacks'
                      /\ callbacks'[type] = callbacks[type]]_vars

\* a one-shot handler that registers itself again has been called with no
\* entry in the registry and is registered now
C16_Witness ==
    /\ lastCall.op = "dispatch"
    /\ Len(lastCall.calls) = 1
    /\ lastCall.calls[1].name = "r"
    /\ ~lastCall.calls[1].registered
    /\ lastCall.event \in DOMAIN callbacks
    /\ callbacks[lastCall.event] = removal_wrapper(lastCall.event, User("r", FALSE, TRUE))

\* C17: the wrapper tmp that wait_for_callback installs is called for one
\* event at most.
C17_WrapperFiresOnce ==
    \A type \in Types : Calls("tmp", type, "entry") <= 1

\* C18: the dispatch of a frame calls the handler registered for its event id;
\* with no handler for the id (no entry, or an entry that holds None) it calls
\* the default handler, if there is one; with neither it calls nothing, raises
\* nothing and leaves the registry, and the tasks, as they were.
C18_DispatchLookup ==
    [][\A type \in EventIds :
          DispatchStep(type) =>
             IF Get(callbacks, type, NoCallback) # NoCallback
             THEN /\ Len(lastCall'.calls) = 1
                  /\ lastCall'.calls[1].by = "entry"
                  /\ lastCall'.calls[1].info = lastCall'.reply.data
                  /\ lastCall'.calls[1].name \in
                        {IF callbacks[type].kind = "removal_wrapper"
                         THEN callbacks[type].callback.name
                         ELSE IF callbacks[type].kind = "tmp" THEN "tmp"
                         ELSE callbacks[type].name}
             ELSE IF default_callback # NoCallback
             THEN /\ Len(lastCall'.calls) = 1
                  /\ lastCall'.calls[1].by = "default"
                  /\ lastCall'.calls[1].info = lastCall'.reply.data
                  /\ lastCall'.calls[1].name = default_callback.name
             ELSE /\ lastCall'.calls = <<>>
                  /\ lastCall'.result = "ok"
                  /\ callbacks' = callbacks
                  /\ coros' = coros]_vars

\* the default handler has just been called for an event id without an entry,
\* after a frame was dropped and a registered handler was called
C18_Witness ==
    /\ lastCall.op = "dispatch"
    /\ lastCall.event \notin DOMAIN callbacks
    /\ Len(lastCall.calls) = 1
    /\ lastCall.calls[1].by = "default"
    /\ lastCall.calls[1].name = "d"
    /\ \E type \in EventIds : Calls("", type, "nobody") >= 1
    /\ \E type \in EventIds, name \in {"h", "a", "r"} : Calls(name, type, "entry") >= 1

\* C19: a dispatch whose handler returns a coroutine ends in the same step with
\* the coroutine handed to a task that has not started; and whatever tasks are
\* pending or suspended, the next frame can be dispatched.
C19_DispatchNeverWaits ==
    /\ [][\A type \in EventIds :
            (DispatchStep(type) /\ Persistent(type) /\ callbacks[type].async) =>
               /\ lastCall'.result = "ok"
               /\ Len(coros') = Len(coros) + 1
               /\ coros'[Len(coros')].pc = "created"
               /\ coros'[Len(coros')].info = lastCall'.reply.data
               /\ \A k \in DOMAIN coros : coros'[k] = coros[k]]_vars
    /\ []((lastCall = Idle /\ Dispatched < MaxEvents)
            => \A type \in EventIds : ENABLED Dispatch(type))

\* a third frame has been dispatched while the coroutine of the first is
\* suspended and that of the second has not started
C19_Witness ==
    /\ lastCall.op = "dispatch"
    /\ lastCall.reply.data.seq = 3
    /\ Len(coros) >= 2
    /\ coros[1].pc = "suspended" /\ coros[1].info.seq = 1
    /\ coros[2].pc = "created" /\ coros[2].info.seq = 2

\* C20: whenever a handler registered with set_callback is in the registry for
\* an event id, a "set callbacks" frame that enables the id has been written.
C20_RegisteredMeansEnabled ==
    \A type \in Types :
        Persistent(type)
        => \E k \in DOMAIN wire :
              /\ wire[k].cmd = "set callbacks"
              /\ type \in DOMAIN wire[k].extra.callbacks
              /\ wire[k].extra.callbacks[type] = TRUE

\* C21: when remove_callback has returned for an event id, the registry has no
\* entry for the id and a "set callbacks" frame that disables the id has been
\* written.
C21_RemovedAndStopped ==
    (lastCall.op = "remove_callback" /\ lastCall.result = "ok")
    => /\ lastCall.event \notin DOMAIN callbacks
       /\ \E k \in DOMAIN wire :
             /\ wire[k].cmd = "set callbacks"
             /\ lastCall.event \in DOMAIN wire[k].extra.callbacks
             /\ wire[k].extra.callbacks[lastCall.event] = FALSE

\* the tasks of the wrapper of wait_for_callback that have not ended
WrapperTasks == {k \in DOMAIN coros : coros[k].handler.kind = "tmp"}

\* C22: the result of wait_for_callback's future is set by the task of the
\* first event that was dispatched to the wrapper, to the payload of that
\* event; once set it never changes; and it is what wait_for_callback returns.
C22_FirstEventReturned ==
    /\ [][(waiter.pc = "event" /\ ~waiter.done /\ waiter'.done) =>
            /\ Cardinality(WrapperTasks) = Calls("tmp", waiter.type, "entry")
            /\ \E k \in WrapperTasks :
                  /\ waiter'.result = coros[k].info
                  /\ \A j \in WrapperTasks : coros[k].info.seq <= coros[j].info.seq]_vars
    /\ [][waiter.done => (waiter'.done /\ waiter'.result = waiter.result)]_vars
    /\ []((lastCall.op = "wait_for_callback" /\ lastCall.result = "ok")
            => (waiter.done /\ lastCall.outcome = Return(waiter.result)))

\* wait_for_callback has returned the payload of the first of two events that
\* were both dispatched to its wrapper
C22_Witness ==
    /\ lastCall.op = "wait_for_callback"
    /\ lastCall.result = "ok"
    /\ Calls("tmp", waiter.type, "entry") = 2
    /\ lastCall.outcome.value.seq = 1

\* the request of the query of the wait_for_callback that is followed
WaitQuery == futs[waiter.fut].owner

\* since wait_for_callback was called, the caller has made no registration of
\* its own: every later request is one that wait_for_callback started in a task
NoRegistrationSince ==
    \A i \in DOMAIN reqs : i > WaitQuery => \E t \in spawned : t.req = i

\* C23: once wait_for_callback has returned and the tasks of the wrapper have
\* ended, the registry entry for the event id is what it was when
\* wait_for_callback was called, and a handler that was registered then has
\* been called with the event.
C23_EntryRestored ==
    (waiter.pc = "returned" /\ WrapperTasks = {} /\ NoRegistrationSince)
    => /\ Get(callbacks, waiter.type, NoCallback) = waiter.old_callback
       /\ waiter.old_callback # NoCallback
             => Calls(waiter.old_callback.name, waiter.type, "tmp") >= 1

\* the positions on the transport of the frames of the requests that were
\* started in a task by this party
FramesBy(by) ==
    {k \in DOMAIN wire : [req |-> futs[wire[k].id].owner, by |-> by] \in spawned}

\* the positions of the frames that set the emission of this event id: those
\* that set it by name and those that clear every emission
SetFrames(type) ==
    {k \in DOMAIN wire : \/ wire[k].cmd = "clear callbacks"
                          \/ /\ wire[k].cmd = "set callbacks"
                             /\ type \in DOMAIN wire[k].extra.callbacks}

\* the emission state of the event id at a server that was in the state
\* initially and has taken the frames on the transport in their order
ServerEnabled(type, initially) ==
    IF SetFrames(type) = {} THEN initially
    ELSE LET last == CHOOSE k \in SetFrames(type) : \A j \in SetFrames(type) : j <= k
         IN IF wire[last].cmd = "clear callbacks" THEN FALSE
            ELSE wire[last].extra.callbacks[type]

\* the only frames that set the emission of the event id are those of
\* wait_for_callback
SingleWait(type) == SetFrames(type) \subseteq (FramesBy("create_task") \cup
                                               FramesBy("_ignored_request"))

\* C24: the restore frame of wait_for_callback is written after its enable
\* frame; and when a single wait_for_callback has returned and its tasks have
\* run, it has written an enable frame and then a restore frame with the state
\* the query reported, so that the server has the event id in the emission
\* state it had when wait_for_callback was called.
C24_EnablementRestored ==
    /\ \A r \in FramesBy("_ignored_request") :
          \E e \in FramesBy("create_task") :
             /\ e < r
             /\ wire[e].cmd = "set callbacks"
             /\ wire[e].extra.callbacks = (waiter.type :> TRUE)
    /\ (waiter.pc = "returned" /\ tasks = {} /\ SingleWait(waiter.type))
          => /\ Cardinality(FramesBy("create_task")) = 1
             /\ Cardinality(FramesBy("_ignored_request")) = 1
             /\ \A r \in FramesBy("_ignored_request") :
                   wire[r].extra.callbacks = (waiter.type :> waiter.old_state)
             /\ ServerEnabled(waiter.type, waiter.old_state) = waiter.old_state

\* wait_for_callback found the event id disabled, has returned, and has
\* written the enable frame and then the frame that disables the id again
C24_Witness ==
    /\ waiter.pc = "returned"
    /\ tasks = {}
    /\ SingleWait(waiter.type)
    /\ ~waiter.old_state
    /\ \E e, r \in SetFrames(waiter.type) :
          /\ e < r
          /\ wire[e].extra.callbacks[waiter.type]
          /\ ~wire[r].extra.callbacks[waiter.type]
    /\ ~ServerEnabled(waiter.type, FALSE)

\* C25: the construction of a request and request.map write no frame, create
\* no correlation entry and start no task; a frame is written, or a
\* correlation entry created, only in a step that awaits or starts a request,
\* runs its task, or gives requests to the Bundler.
C25_ConstructionWithoutIO ==
    /\ [][(lastCall = Idle /\ lastCall'.op \in {"new", "map"})
            => (wire' = wire /\ futs' = futs /\ tasks' = tasks)]_vars
    /\ [][(Len(wire') > Len(wire) \/ Len(futs') > Len(futs))
            => lastCall'.op \in {"await", "start", "task", "bundle", "bundle_p"}]_vars

\* a request has just been made by map from a constructed one, with another
\* request in flight: one frame on the transport and none for the new request
C25_Witness ==
    /\ lastCall.op = "map"
    /\ lastCall.result = "ok"
    /\ Len(wire) = 1
    /\ Len(futs) = 1
    /\ \A id \in DOMAIN futs : futs[id].owner \notin {lastCall.args[1], lastCall.ret[1]}

\* ------------------------------------------------------- claims, discovery
\* the packet does not begin with the magic marker
LacksMarker(data) ==
    \E k \in DOMAIN BROADCAST_MAGIC_NUMBER :
        Len(data) < k \/ data[k] # BROADCAST_MAGIC_NUMBER[k]

\* C26: a packet received without the magic marker at its start yields
\* nothing, raises nothing and leaves the scan going as it was; a packet with
\* the marker yields its announcement with its source address, whatever was
\* discarded before it.
C26_ForeignPacketsDiscarded ==
    [][Len(received') > Len(received) =>
          LET p == received'[Len(received')]
          IN IF LacksMarker(p.data)
             THEN /\ yielded' = yielded
                  /\ scan' = scan
                  /\ scan'.pc = "scanning"
                  /\ connections' = connections
             ELSE /\ Len(yielded') = Len(yielded) + 1
                  /\ yielded'[Len(yielded')].packet = Len(received')
                  /\ yielded'[Len(yielded')].addr = p.addr
                  /\ yielded'[Len(yielded')].broadcast["player username"] =
                        p.data[Len(BROADCAST_MAGIC_NUMBER) + 4]]_vars

\* an announcement has been yielded from a packet that arrived, in the same
\* scan, after two packets without the marker
C26_Witness ==
    /\ Len(received) = 3
    /\ scan.from = 0
    /\ LacksMarker(received[1].data)
    /\ LacksMarker(received[2].data)
    /\ received[1].data # received[2].data
    /\ Len(yielded) = 1
    /\ yielded[1].packet = 3

\* the announcement carries the name discover was called with, if any
Matching(y) ==
    scan.with_name = <<>> \/ y.broadcast["player username"] = scan.with_name[1]

\* the announcements yielded to the discover call in progress, by position
YieldedToCall == {y \in DOMAIN yielded : yielded[y].packet > scan.from}

\* the discover call has taken an announcement: it is opening the connection,
\* has returned, or has been left by the failure of opening it
Taken ==
    \/ scan.pc \in {"starting", "connected"}
    \/ scan.pc = "raised" /\ scan.exc \in StartOutcomes

\* C27: discover opens a connection only on an announcement that carries the
\* name it was called with (on any, when called without a name), to the host
\* the announcement came from and the port it advertises; and it does so on
\* the first such announcement: while it scans, none has been yielded to it,
\* and it returns only after the connection it made then has been opened.
C27_ConnectsToFirstMatch ==
    /\ [][connections' # connections =>
            /\ scan.pc = "scanning"
            /\ scan'.pc = "starting"
            /\ Len(yielded') = Len(yielded) + 1
            /\ Matching(yielded'[Len(yielded')])
            /\ connections' =
                  Append(connections,
                         [host |-> yielded'[Len(yielded')].addr.host,
                          port |-> yielded'[Len(yielded')].broadcast["port"]])]_vars
    /\ [](scan.pc = "scanning" => \A y \in YieldedToCall : ~Matching(yielded[y]))
    /\ [][scan'.pc = "connected" =>
            (scan.pc \in {"starting", "connected"} /\ connections' = connections)]_vars
    /\ [](Taken =>
            \E y \in YieldedToCall :
               /\ Matching(yielded[y])
               /\ \A z \in YieldedToCall : z < y => ~Matching(yielded[z])
               /\ \A z \in YieldedToCall : z <= y)

\* discover("alice") has connected to the host and advertised port of the
\* announcement of alice, which arrived from another host after one of bob
C27_Witness ==
    /\ scan.pc = "connected"
    /\ scan.with_name = <<"alice">>
    /\ scan.from = 0
    /\ Len(yielded) = 2
    /\ yielded[1].broadcast["player username"] = "bob"
    /\ yielded[2].broadcast["player username"] = "alice"
    /\ yielded[1].addr.host # yielded[2].addr.host
    /\ connections = <<[host |-> yielded[2].addr.host, port |-> 43001]>>

\* ------------------------------------------------------ claims, bundles (2)
\* the packet ids of the futures that bundle call b returned
SubFutures(b) == Range(bundled[b].ids)

\* the reply fails the future of a request that declared this tag
FailsFuture(self, reply) == IsErrorShape(reply) \/ reply.tag # self.required_type

\* C28: the reply to a sub-request of a bundle changes the future of that
\* sub-request only (the futures of the other sub-requests and of the outer
\* request stay as they are, also when the reply fails the future: error
\* shape or wrong tag); and a sub-future whose reply has the declared tag and
\* a payload that decodes resolves to its own value, the decoded payload
\* after the request's transforms, whatever became of the others.
C28_SubFailuresIsolated ==
    /\ [][\A id \in DOMAIN futs :
            (lastCall = Idle /\ lastCall'.op = "reply" /\ lastCall'.ret = <<id>>)
            => \A j \in (DOMAIN futs) \ {id} : futs'[j] = futs[j]]_vars
    /\ [](\A b \in DOMAIN bundled : \A id \in SubFutures(b) :
            (/\ lastCall.op = "reply" /\ lastCall.ret = <<id>>
             /\ ~FailsFuture(reqs[futs[id].owner], lastCall.reply)
             /\ (reqs[futs[id].owner].raw \/ "id" \in DOMAIN lastCall.reply.data))
            => lastCall.outcome =
                  Return(ApplyChain(chained[futs[id].owner],
                                    Decoded(reqs[futs[id].owner], lastCall.reply))))
    /\ [](\A b \in DOMAIN bundled : \A id \in SubFutures(b) :
            (/\ lastCall.op = "reply" /\ lastCall.ret = <<id>>
             /\ FailsFuture(reqs[futs[id].owner], lastCall.reply))
            => lastCall.outcome.kind = "raise")

\* the first sub-future of a bundle_p of two has just failed on an error reply
\* while the second and the future of the outer request, whose frame is
\* written, are still pending
C28_Witness ==
    \E b \in DOMAIN bundled :
        /\ bundled[b].op = "bundle_p"
        /\ Len(bundled[b].ids) = 2
        /\ lastCall.op = "reply"
        /\ lastCall.ret = <<bundled[b].ids[1]>>
        /\ IsErrorShape(lastCall.reply)
        /\ lastCall.outcome.kind = "raise"
        /\ futs[bundled[b].ids[2]].state = "written"
        /\ \E id \in DOMAIN futs : futs[id].owner = Mapped(b) /\ futs[id].state = "written"

\* C29: a bundle call that is rejected because ticks were given with a method
\* other than TICKLY leaves the connection as it was: no correlation entry is
\* created, no frame is written and no task is started.
C29_RejectedBundleLeavesNoTrace ==
    [][(/\ lastCall = Idle
        /\ lastCall'.op \in {"bundle", "bundle_p"}
        /\ lastCall'.result = "AttributeError")
       => (futs' = futs /\ wire' = wire /\ tasks' = tasks)]_vars

\* C30: a bundle call with no request, and arguments that are accepted
\* otherwise, does not raise and returns no future.
C30_EmptyBundleWorks ==
    (/\ lastCall.op \in {"bundle", "bundle_p"}
     /\ lastCall.args = <<>>
     /\ ~ticks_rejected(lastCall.method, lastCall.ticks))
    => (lastCall.result = "ok" /\ lastCall.outcome.kind # "raise")

\* every request has been written, handled and answered, and every task has run
Quiet == ready = <<>> /\ down = <<>> /\ server.handled = Len(net)

\* every wait_for_callback call made has returned
AllReturned == \A n \in DOMAIN waits : waits[n].pc = "returned"

\* C31: Repeated wait_for_callback calls made one after the other (as
\* wait_for_chat makes them) leave the event class disabled at the server, as
\* it was before the first call, once the last call has returned and every
\* request is answered, whatever the order in which the restore request of one
\* call and the query of the next were written.
C31_SequentialWaitsRestore ==
    (/\ Len(waits) >= 2
     /\ AllReturned
     /\ \A n \in DOMAIN waits : ~waits[n].concurrent
     /\ Quiet)
        => ~server.enabled

\* the wait_for_callback call has registered its wrapper and not been given an
\* event yet
WaitPending(type) ==
    waiter.pc = "event" /\ waiter.type = type /\ ~waiter.done /\ WrapperTasks = {}

\* C32: Once wait_for_callback has registered its wrapper, the next event of
\* the type dispatched reaches the wrapper (so that the call returns), also
\* when set_callback or remove_callback was called for the type while the call
\* was pending; and a step of the wrapper during the wait leaves a handler
\* alone that was registered for the type after the wrapper.
C32_WaitSurvivesRegistration ==
    /\ [][\A type \in Types :
            (DispatchStep(type) /\ WaitPending(type)) => WrapperTasks' # {}]_vars
    /\ [][\A type \in Types :
            (/\ lastCall = Idle
             /\ lastCall'.op = "coroutine"
             /\ waiter.pc = "event"
             /\ waiter.type = type
             /\ type \in DOMAIN callbacks
             /\ callbacks[type].kind = "user")
                => (type \in DOMAIN callbacks' /\ callbacks'[type] = callbacks[type])]_vars

\* C33: When two tasks are in wait_for_callback for the same type at the same
\* time, one event makes both calls return its payload, and once both have
\* returned and every task has run the registry entry of the type is what it
\* was before the first call: none, so no wrapper of either call is left.
C33_ConcurrentWaitsLeaveNoWrapper ==
    (/\ Len(waits) = 2
     /\ waits[2].concurrent
     /\ waits[1].caller # waits[2].caller
     /\ AllReturned
     /\ Quiet)
        => /\ "CHAT" \notin DOMAIN callbacks
           /\ Len(emitted) = 1 => waits[1].result = waits[2].result

\* a chat event that satisfies the predicate was emitted while wait_for_chat
\* was pending
MatchEmitted ==
    \E k \in DOMAIN emitted :
        /\ emitted[k].chat.pc = "pending"
        /\ Contains(emitted[k].chat.predicate, emitted[k].message)

\* C34: A chat message that satisfies the predicate and is emitted while
\* wait_for_chat is pending is not lost: once everything sent has been read and
\* every task has run, wait_for_chat has returned a message that satisfies the
\* predicate. Stated for a session in which only wait_for_chat waits for events.
C34_MatchingMessageNotLost ==
    (/\ MatchEmitted
     /\ \A n \in DOMAIN waits : waits[n].caller = chat.caller
     /\ Quiet)
        => (chat.pc = "returned" /\ Contains(chat.predicate, chat.ret))

\* the reply to the query of the wait_for_callback call has made the query fail
QueryFailed ==
    /\ lastCall.op = "reply"
    /\ waiter.pc = "states"
    /\ lastCall.ret = <<waiter.fut>>
    /\ lastCall.outcome.kind = "raise"

\* C35: When the state query of wait_for_callback fails, the call raises what
\* the query raised and changes nothing else: the registry is as it was, no
\* wrapper is installed, no request is created, started as a task or written.
\* Up to that point the call has created no task either.
C35_FailedQueryChangesNothing ==
    /\ [][QueryFailed =>
            /\ lastCall'.op = "wait_for_callback"
            /\ lastCall'.result = lastCall.outcome.exc
            /\ lastCall'.outcome = lastCall.outcome
            /\ lastCall'.to = "caller"
            /\ UNCHANGED <<callbacks, default_callback, reqs, tasks, spawned, wire,
                           futs, coros>>]_vars
    /\ [](waiter.pc \in {"none", "states"} =>
            /\ spawned = {}
            /\ \A type \in DOMAIN callbacks : callbacks[type].kind # "tmp")

\* the query failed while a handler was registered for the type, and the call
\* has raised
C35_Witness ==
    /\ lastCall.op = "wait_for_callback"
    /\ lastCall.result = "PuppeteerError"
    /\ lastCall.outcome.kind = "raise"
    /\ lastCall.event \in DOMAIN callbacks
    /\ callbacks[lastCall.event].kind = "user"

\* C36: Whatever raw flag and expected tag a request was constructed with, a
\* reply that is not the error shape and carries the expected tag ends the
\* request's future with a value; in particular a request that is not raw and
\* expects "b" or "n" yields the payload.
C36_ExpectedTagYieldsValue ==
    \A i \in DOMAIN reqs :
        (Replied(i) /\ ~IsErrorShape(lastCall.reply)
            /\ lastCall.reply.tag = reqs[i].required_type)
        => lastCall.outcome.kind = "return"

\* ----------------------------------------------------------- claims, tools
\* C37: arotate returns, for every member of RoMethod, a request that has not
\* been sent, with the command "algorithmic rotation" and the member's wire
\* string as interpolation; it writes nothing and does not raise.
C37_ArotateBuildsRequest ==
    lastCall.op = "arotate"
        => /\ lastCall.result = "ok"
           /\ Len(lastCall.ret) = 1
           /\ reqs[lastCall.ret[1]].message = "algorithmic rotation"
           /\ reqs[lastCall.ret[1]].extra["interpolation"] = RoMethod[lastCall.method]
           /\ ~reqs[lastCall.ret[1]].executed
           /\ wire = <<>>
           /\ futs = <<>>

\* the classes whose container is a grid of rows and columns
GridClasses ==
    {class \in InventoryClasses : class.container_type \notin {"lectern", None}}
ClassOf(type) == CHOOSE class \in InventoryClasses : class.container_type = type

\* C38: For every class with a grid, the first slot of the player's inventory,
\* get_inventory_slot(0, 0), is the slot after the last slot of the container:
\* its id is container offset + width x height, and 2 + 3c for the inventory
\* of an entity with c columns.
C38_PlayerInventoryFollowsContainer ==
    (/\ lastCall.op = "get_inventory_slot"
     /\ ClassOf(lastCall.event) \in GridClasses
     /\ lastCall.input[1] = 0
     /\ lastCall.input[2] = 0
     /\ lastCall.event = "horse" => Len(lastCall.input) = 3)
        => /\ lastCall.result = "ok"
           /\ lastCall.ret =
                 <<IF lastCall.event = "horse" THEN 2 + 3 * lastCall.input[3]
                   ELSE ClassOf(lastCall.event).container_offset[1]
                        + ClassOf(lastCall.event).container_width[1]
                          * ClassOf(lastCall.event).container_height[1]>>

====
